---- MODULE Spec2Model ----
(***************************************************************************)
(* A model of the leader side of the Redis-compatible server: the          *)
(* per-connection task (Connection::handle / process_socket_read), the     *)
(* shared state (client table, peer table, key-value store, stream store)  *)
(* and the command parser.                                                 *)
(*                                                                         *)
(* Granularity.  Every command handler that touches the key-value store    *)
(* or a transaction queue first takes the write lock of the client table   *)
(* (connection.rs:153,162,185,301,337,359) and keeps it until the handler  *)
(* is done, so one command is one atomic step with respect to the other    *)
(* connections; between two commands of one read, and between the end of   *)
(* process_socket_read and the write of its responses, other tasks run.    *)
(***************************************************************************)
EXTENDS Integers, Sequences, FiniteSets, TLC

VARIABLES
    pc,                 \* per connection: position of its task
    str_from_network,   \* per connection: the read being processed (wire items)
    cursor,             \* per connection: index of the next item of the read
    responses,          \* per connection: responses collected for the read
    identify_replica,   \* per connection: handshake steps recorded so far
    rx,                 \* per connection: receiving end of its mpsc channel
    sock,               \* per connection: what has been written to its socket
    clients,            \* SharedState.clients : addr -> Client
    peers,              \* SharedState.peers   : addr -> Peer
    hash_map,           \* KeyValueStore.hash_map : key -> (value, expiry)
    size,               \* KeyValueStore.size
    expire_size,        \* KeyValueStore.expire_size
    now,                \* the monotonic clock (Instant::now), in ms
    root,               \* RadixTreeStore.root : path -> node
    last_entry_id,      \* RadixTreeStore.last_entry_id
    stream_tx,          \* RadixTreeStore.tx/rx : the ids sent and not received
    notify,             \* RadixTreeStore.notify : a permit is stored
    reads,              \* number of socket reads done so far (bounded)
    applied,            \* history: the writes applied to the key-value store
    follower,           \* the follower at the remote end of connection "r"
    waiters,            \* the tasks in check_availability, in the order they
                        \* asked for the lock of RadixTreeStore.rx
    task                \* per connection, where the handlers are followed
                        \* lock by lock: the locks held and what is to do

vars == <<pc, str_from_network, cursor, responses, identify_replica, rx, sock,
          clients, peers, hash_map, size, expire_size, now, root,
          last_entry_id, stream_tx, notify, reads, applied, follower,
          waiters, task>>

(***************************************************************************)
(* Bounds of the model.                                                    *)
(***************************************************************************)
MaxReads == 3
\* the ticks counted by a blocking read without a timeout
MaxCount == 3

Conns == {"a", "b", "r"}

None == [some |-> FALSE]
Some(x) == [some |-> TRUE, v |-> x]

CRLF == "\r\n"

(***************************************************************************)
(* Strings and integers: format!("{}", n) and str::parse::<i64>.           *)
(***************************************************************************)
DigitStr == <<"0", "1", "2", "3", "4", "5", "6", "7", "8", "9">>

RECURSIVE Str(_)
Str(n) ==
    IF n < 0 THEN "-" \o Str(0 - n)
    ELSE IF n < 10 THEN DigitStr[n + 1]
    ELSE Str(n \div 10) \o DigitStr[(n % 10) + 1]

\* the integers a bulk string of the model can spell: the small values and
\* the port, in their canonical spelling, and two non-canonical spellings
\* that str::parse::<i64> accepts as well
SpelledInts == (-1 .. 130) \cup {6380}
Spellings ==
    [s \in {Str(n) : n \in SpelledInts} |->
        CHOOSE n \in SpelledInts : Str(n) = s]
NonCanonical == [s \in {"007", "+1"} |-> IF s = "007" THEN 7 ELSE 1]

ParseI64(s) ==
    IF s \in DOMAIN Spellings THEN Some(Spellings[s])
    ELSE IF s \in DOMAIN NonCanonical THEN Some(NonCanonical[s])
    ELSE None

LowerTable ==
    [s \in {"PING", "ECHO", "GET", "SET", "INCR", "MULTI", "EXEC", "DISCARD",
            "REPLCONF", "PSYNC", "XADD", "TYPE", "KEYS", "WAIT", "PX", "EX",
            "GETACK", "ACK", "CAPA", "LISTENING-PORT", "XRANGE", "XREAD",
            "BLOCK", "STREAMS"} |->
        CASE s = "PING" -> "ping"
          [] s = "ECHO" -> "echo"
          [] s = "GET" -> "get"
          [] s = "SET" -> "set"
          [] s = "INCR" -> "incr"
          [] s = "MULTI" -> "multi"
          [] s = "EXEC" -> "exec"
          [] s = "DISCARD" -> "discard"
          [] s = "REPLCONF" -> "replconf"
          [] s = "PSYNC" -> "psync"
          [] s = "XADD" -> "xadd"
          [] s = "TYPE" -> "type"
          [] s = "KEYS" -> "keys"
          [] s = "WAIT" -> "wait"
          [] s = "PX" -> "px"
          [] s = "EX" -> "ex"
          [] s = "GETACK" -> "getack"
          [] s = "ACK" -> "ack"
          [] s = "CAPA" -> "capa"
          [] s = "LISTENING-PORT" -> "listening-port"
          [] s = "XRANGE" -> "xrange"
          [] s = "XREAD" -> "xread"
          [] s = "BLOCK" -> "block"
          [] s = "STREAMS" -> "streams"]

to_ascii_lowercase(s) == IF s \in DOMAIN LowerTable THEN LowerTable[s] ELSE s

(***************************************************************************)
(* The wire.  A read is a sequence of items; an item is a RESP array of    *)
(* bulk strings, or a bare top-level number line.  Bytes gives the bytes   *)
(* of an item as the client sends them.                                    *)
(***************************************************************************)
Arr(elems) == [kind |-> "array", elems |-> elems]
NumLine(n) == [kind |-> "num", elems |-> <<Str(n)>>]

RECURSIVE BulkBytes(_)
BulkBytes(elems) ==
    IF elems = <<>> THEN ""
    ELSE "$" \o Str(Len(Head(elems))) \o CRLF \o Head(elems) \o CRLF
         \o BulkBytes(Tail(elems))

ItemBytes(item) ==
    IF item.kind = "array"
    THEN "*" \o Str(Len(item.elems)) \o CRLF \o BulkBytes(item.elems)
    ELSE item.elems[1] \o CRLF

RECURSIVE Bytes(_)
Bytes(read) ==
    IF read = <<>> THEN "" ELSE ItemBytes(Head(read)) \o Bytes(Tail(read))

(***************************************************************************)
(* RespData::parse: a bulk string that parses as an i64 is surfaced as     *)
(* Integer, anything else as String; a bare number line is a top-level     *)
(* Integer.                                                                *)
(***************************************************************************)
RString(s) == [t |-> "String", s |-> s, n |-> 0]
RInteger(n) == [t |-> "Integer", s |-> "", n |-> n]

RespWord(word) ==
    IF ParseI64(word).some THEN RInteger(ParseI64(word).v) ELSE RString(word)

\* a bulk string whose token is a number is written again with to_string();
\* if its length is then not the declared one, parse gives up on the whole
\* read with RespError::Invalid
RespInvalid(read) ==
    \E i \in 1 .. Len(read) : \E j \in 1 .. Len(read[i].elems) :
        /\ read[i].kind = "array"
        /\ ParseI64(read[i].elems[j]).some
        /\ Len(Str(ParseI64(read[i].elems[j]).v)) # Len(read[i].elems[j])

RespParse(item) ==
    IF item.kind = "array"
    THEN [t |-> "Array",
          v |-> [i \in 1 .. Len(item.elems) |-> RespWord(item.elems[i])]]
    ELSE [t |-> "Integer", v |-> <<>>]

(***************************************************************************)
(* parse_command: from the parsed array to a typed command or an error.    *)
(***************************************************************************)
SyntaxError == [cmd |-> "Error", message |-> "ERR syntax error"]
WrongNumberOfArguments(x) ==
    [cmd |-> "Error",
     message |-> "ERR wrong number of arguments for '" \o x \o "' command"]
NotSupported == [cmd |-> "Error", message |-> "ERR Command Not Supported"]
NotValidType(x) ==
    [cmd |-> "Error",
     message |-> "ERR Not a valid type for the command '" \o x \o "'"]
\* todo!() and expect() in the parser or a handler: the task panics
Panic == [cmd |-> "Panic"]

\* v_iter.next() for the i-th element
Nth(v, i) == IF i <= Len(v) THEN v[i] ELSE None
IsString(x) == x # None /\ x.t = "String"
IsInteger(x) == x # None /\ x.t = "Integer"
\* RespData::String(s) => s, RespData::Integer(n) => n.to_string()
AsText(x) == IF x.t = "String" THEN x.s ELSE Str(x.n)

ParseSet(v) ==
    LET opt == Nth(v, 4)
        hasOpt == IsString(opt) /\ to_ascii_lowercase(opt.s) \in {"ex", "px"}
        expiry == IF ~hasOpt THEN None
                  ELSE IF opt.s = "ex" THEN Some(Nth(v, 5).n * 1000)
                  ELSE Some(Nth(v, 5).n)
        rest == IF hasOpt THEN Nth(v, 6) ELSE Nth(v, 5)
    IN  IF Nth(v, 2) = None \/ Nth(v, 3) = None
        THEN WrongNumberOfArguments("set")
        ELSE IF opt # None /\ ~IsString(opt) THEN NotValidType("set")
        ELSE IF IsString(opt)
                /\ to_ascii_lowercase(opt.s) \in {"nx", "xx", "keepttl"}
        THEN Panic
        ELSE IF IsString(opt) /\ ~hasOpt THEN SyntaxError
        ELSE IF hasOpt /\ Nth(v, 5) = None THEN SyntaxError
        ELSE IF hasOpt /\ ~IsInteger(Nth(v, 5)) THEN NotValidType("set")
        ELSE IF rest # None THEN SyntaxError
        ELSE [cmd |-> "Set", key |-> AsText(Nth(v, 2)),
              value |-> AsText(Nth(v, 3)), expiry |-> expiry]

\* get, incr and type take one key that must be a String
ParseKeyed(v, cmd, name) ==
    IF ~IsString(Nth(v, 2)) \/ Nth(v, 3) # None
    THEN WrongNumberOfArguments(name)
    ELSE [cmd |-> cmd, key |-> Nth(v, 2).s]

\* ping and echo take an optional String
ParseOptional(v, cmd, name) ==
    IF IsString(Nth(v, 2))
    THEN IF Nth(v, 3) # None THEN WrongNumberOfArguments(name)
         ELSE [cmd |-> cmd, value |-> Some(Nth(v, 2).s)]
    ELSE [cmd |-> cmd, value |-> None]

\* exec, multi and discard take no argument
ParseBare(v, cmd, name) ==
    IF Nth(v, 2) # None THEN WrongNumberOfArguments(name) ELSE [cmd |-> cmd]

ParseReplconf(v) ==
    LET sub == Nth(v, 2)
        arg == Nth(v, 3)
    IN  IF sub = None THEN Panic
        ELSE IF ~IsString(sub) THEN NotSupported
        ELSE CASE to_ascii_lowercase(sub.s) = "listening-port" ->
                    IF ~IsInteger(arg) THEN NotValidType("replconf")
                    ELSE IF Nth(v, 4) # None
                    THEN WrongNumberOfArguments("replconf")
                    ELSE [cmd |-> "Replconf",
                          args |-> <<"listening-port", Str(arg.n)>>]
               [] to_ascii_lowercase(sub.s) = "capa" ->
                    [cmd |-> "Replconf",
                     args |-> IF IsString(arg) THEN <<"capa", arg.s>>
                              ELSE <<"capa">>]
               [] to_ascii_lowercase(sub.s) = "getack" ->
                    [cmd |-> "Replconf",
                     args |-> IF IsString(arg) THEN <<"getack", arg.s>>
                              ELSE <<"getack">>]
               [] to_ascii_lowercase(sub.s) = "ack" ->
                    [cmd |-> "Replconf",
                     args |-> IF IsInteger(arg) THEN <<"ack", Str(arg.n)>>
                              ELSE <<"ack">>]
               [] OTHER -> NotSupported

ParsePsync(v) ==
    IF Nth(v, 4) # None THEN WrongNumberOfArguments("psync")
    ELSE [cmd |-> "Psync",
          args |-> (IF IsString(Nth(v, 2)) THEN <<Nth(v, 2).s>> ELSE <<>>)
                   \o (IF IsInteger(Nth(v, 3)) THEN <<Str(Nth(v, 3).n)>>
                       ELSE <<>>)]

\* wait: an argument is kept only if it is an Integer
ParseWait(v) ==
    IF Nth(v, 4) # None THEN WrongNumberOfArguments("psync")
    ELSE [cmd |-> "Wait",
          args |-> (IF IsInteger(Nth(v, 2)) THEN <<Str(Nth(v, 2).n)>> ELSE <<>>)
                   \o (IF IsInteger(Nth(v, 3)) THEN <<Str(Nth(v, 3).n)>>
                       ELSE <<>>)]

\* the field/value pairs of XADD, from element i on
RECURSIVE XaddPairs(_, _)
XaddPairs(v, i) ==
    IF i > Len(v) THEN <<>>
    ELSE <<<<v[i].s, AsText(v[i + 1])>>>> \o XaddPairs(v, i + 2)

ParseXadd(v) ==
    IF ~IsString(Nth(v, 2)) \/ ~IsString(Nth(v, 3)) THEN NotValidType("XADD")
    ELSE IF (Len(v) - 3) % 2 # 0 THEN WrongNumberOfArguments("xread")
    ELSE IF \E i \in 4 .. Len(v) : (i % 2 = 0) /\ ~IsString(v[i])
    THEN NotValidType("XADD")
    ELSE [cmd |-> "Xadd", key |-> Nth(v, 2).s, entry_id |-> Nth(v, 3).s,
          args |-> XaddPairs(v, 4)]

ParseXrange(v) ==
    IF ~IsString(Nth(v, 2)) \/ ~IsString(Nth(v, 3)) \/ ~IsString(Nth(v, 4))
    THEN NotValidType("XRANGE")
    ELSE IF Nth(v, 5) # None THEN WrongNumberOfArguments("xrange")
    ELSE [cmd |-> "Xrange", key |-> v[2].s, start |-> v[3].s, end |-> v[4].s]

\* xread: the options from element i on; BLOCK takes the element after it
\* (and keeps it if it is an Integer), STREAMS takes all that follows, half
\* of it keys and half of it ids, any other word ends the options
RECURSIVE ParseXread(_, _, _)
ParseXread(v, i, block) ==
    IF ~IsString(Nth(v, i)) THEN NotValidType("XREAD")
    ELSE CASE to_ascii_lowercase(v[i].s) = "block" ->
                ParseXread(v, i + 2,
                           IF IsInteger(Nth(v, i + 1)) THEN Some(v[i + 1].n)
                           ELSE block)
           [] to_ascii_lowercase(v[i].s) = "streams" ->
                LET cmd_options == [j \in 1 .. Len(v) - i |-> AsText(v[i + j])]
                    mid == Len(cmd_options) \div 2
                IN  IF Len(cmd_options) % 2 # 0
                    THEN WrongNumberOfArguments("XREAD")
                    ELSE [cmd |-> "Xread", block |-> block,
                          keys |-> SubSeq(cmd_options, 1, mid),
                          entry_ids |-> SubSeq(cmd_options, mid + 1,
                                               Len(cmd_options))]
           [] OTHER -> [cmd |-> "Xread", block |-> block, keys |-> <<>>,
                        entry_ids |-> <<>>]

parse_command(v) ==
    IF ~IsString(Nth(v, 1)) THEN NotSupported
    ELSE LET name == to_ascii_lowercase(v[1].s)
         IN  CASE name = "set" -> ParseSet(v)
               [] name = "get" -> ParseKeyed(v, "Get", "get")
               [] name = "incr" -> ParseKeyed(v, "Incr", "INCR")
               [] name = "ping" -> ParseOptional(v, "Ping", "ping")
               [] name = "echo" -> ParseOptional(v, "Echo", "echo")
               [] name = "exec" -> ParseBare(v, "Exec", "exec")
               [] name = "multi" -> ParseBare(v, "Multi", "multi")
               [] name = "discard" -> ParseBare(v, "Discard", "discard")
               [] name = "replconf" -> ParseReplconf(v)
               [] name = "psync" -> ParsePsync(v)
               [] name = "keys" ->
                    (IF IsString(Nth(v, 2))
                     THEN [cmd |-> "Keys", arg |-> Nth(v, 2).s]
                     ELSE SyntaxError)
               [] name = "type" -> ParseKeyed(v, "Type", "type")
               [] name = "wait" -> ParseWait(v)
               [] name = "xadd" -> ParseXadd(v)
               [] name = "xrange" -> ParseXrange(v)
               [] name = "xread" -> ParseXread(v, 2, None)
               [] OTHER -> NotSupported

(***************************************************************************)
(* Responses, as the bytes pushed to `responses`.                          *)
(***************************************************************************)
Simple(text) == "+" \o text \o CRLF
Error(text) == "-" \o text \o CRLF
Integer(n) == ":" \o Str(n) \o CRLF
Bulk(text) == "$" \o Str(Len(text)) \o CRLF \o text \o CRLF
NullBulk == "$-1" \o CRLF
ArrayHeader(n) == "*" \o Str(n) \o CRLF

\* 40 alphanumeric characters drawn at random when the leader starts; the
\* model takes one such value
master_replid == "8371b4fb1155b71f4a04d3e1bc3e18c4a990aeeb"
FullResync == "+FULLRESYNC " \o master_replid \o " 0" \o CRLF
RdbLen == 88
RdbFile == "$" \o Str(RdbLen) \o CRLF \o "REDIS0011<rdb>"

(***************************************************************************)
(* The shared state a handler works on, as one record, so that the         *)
(* handlers compose (EXEC runs several of them in one go).                 *)
(***************************************************************************)
Shared ==
    [clients |-> clients, peers |-> peers, rx |-> rx,
     hash_map |-> hash_map, size |-> size, expire_size |-> expire_size,
     root |-> root, last_entry_id |-> last_entry_id,
     stream_tx |-> stream_tx, notify |-> notify, applied |-> applied,
     waiters |-> waiters]

Alive(c) == pc[c] \notin {"none", "closed"}

\* a task that is in no handler: it holds no lock
Idle == [ops |-> <<>>, held |-> {}, reading |-> {}, val |-> None]

Put(f, k, e) == [x \in (DOMAIN f) \cup {k} |-> IF x = k THEN e ELSE f[x]]
Drop(f, k) == [x \in (DOMAIN f) \ {k} |-> f[x]]

(***************************************************************************)
(* KeyValueStore                                                           *)
(***************************************************************************)
kv_insert(S, k, v, expiry) ==
    [S EXCEPT
        !.hash_map = Put(@, k, [value |-> v,
                                expiry |-> IF expiry.some
                                           THEN Some([at |-> now,
                                                      dur |-> expiry.v])
                                           ELSE None]),
        !.expire_size = IF expiry.some THEN @ + 1 ELSE @,
        !.size = @ + 1]

Expired(e) == e.expiry.some /\ (now - e.expiry.v.at) > e.expiry.v.dur

\* (variant) the expired binding is left in the map
kv_get_kept(S, k) == S

\* the store after the lookup (an expired binding is removed by it)
kv_get_store(S, k) ==
    IF k \in DOMAIN S.hash_map /\ Expired(S.hash_map[k])
    THEN [S EXCEPT !.size = @ - 1, !.expire_size = @ - 1,
                   !.hash_map = Drop(@, k)]
    ELSE S

\* the value the lookup returns
kv_get(S, k) ==
    IF k \in DOMAIN S.hash_map /\ ~Expired(S.hash_map[k])
    THEN Some(S.hash_map[k].value)
    ELSE None

(***************************************************************************)
(* SharedState: the peer table                                             *)
(***************************************************************************)
\* msg_str.to_ascii_lowercase().contains(word), for the words of the model
Contains(read, word) ==
    \E i \in 1 .. Len(read) : \E j \in 1 .. Len(read[i].elems) :
        to_ascii_lowercase(read[i].elems[j]) = word

\* a message in a peer's channel: the bytes, and (history) the write of
\* `applied` it was enqueued for, 0 if none
Message(read, w) == [read |-> read, w |-> w]

\* (variant) the message is put at the front of the channel
send_front(queue, p, m) == IF Alive(p) THEN <<m>> \o queue ELSE queue

\* p.sender.send(message): an unbounded channel, the send fails (and the
\* error is ignored) once the receiving task has ended
send(queue, p, m) == IF Alive(p) THEN Append(queue, m) ELSE queue

broadcast_peers(S, message, w) ==
    [S EXCEPT
        !.rx = [p \in DOMAIN @ |->
                   IF p \in DOMAIN S.peers
                   THEN send(@[p], p, Message(message, w)) ELSE @[p]],
        !.peers = [p \in DOMAIN @ |->
                   [@[p] EXCEPT
                       !.bytes_sent = @ + Len(Bytes(message)),
                       !.commands_processed =
                           IF ~Contains(message, "getack")
                           THEN Append(@, message) ELSE @]]]

NewPeer == [bytes_sent |-> 0, bytes_written |-> 0, commands_processed |-> <<>>]
NewClient == [multi_lock |-> FALSE, multi_queue |-> <<>>]

\* entry(addr).or_insert(x)
or_insert(table, addr, x) == IF addr \in DOMAIN table THEN table ELSE Put(table, addr, x)

insert_peer(S, addr) == [S EXCEPT !.peers = or_insert(@, addr, NewPeer)]
insert_client(S, addr) == [S EXCEPT !.clients = or_insert(@, addr, NewClient)]

\* (variant) fetch_add for store
update_peers_bytes_added(S, sender, n) ==
    [S EXCEPT !.peers = [p \in DOMAIN @ |->
                            IF p = sender THEN [@[p] EXCEPT !.bytes_written = @ + n]
                            ELSE @[p]]]

update_peers_bytes_written(S, sender, n) ==
    [S EXCEPT !.peers = [p \in DOMAIN @ |->
                            IF p = sender THEN [@[p] EXCEPT !.bytes_written = n]
                            ELSE @[p]]]

\* (variant) the comparison with bytes_written left out
verify_peers_counted(S, offset_len) ==
    Cardinality({p \in DOMAIN S.peers : S.peers[p].bytes_sent >= offset_len})

\* the number of peers whose bytes_sent, less offset_len, is bytes_written;
\* `wrapped` are the peers whose bytes_sent is less than offset_len, where
\* the usize subtraction wraps (a build without overflow checks) and the
\* difference is beyond any value bytes_written can have
verify_peers_propagation(S, offset_len) ==
    Cardinality({p \in DOMAIN S.peers :
                    /\ S.peers[p].bytes_sent >= offset_len
                    /\ S.peers[p].bytes_sent - offset_len
                          = S.peers[p].bytes_written})

\* the subtraction of verify_peers_propagation overflows for some peer
Underflows(S, offset_len) ==
    \E p \in DOMAIN S.peers : S.peers[p].bytes_sent < offset_len

count_peers_commands_processed(S) ==
    Cardinality({p \in DOMAIN S.peers : S.peers[p].commands_processed # <<>>})

(***************************************************************************)
(* RadixTreeStore.  The tree is the set of its nodes, each named by the    *)
(* path of characters that leads to it from the root.                      *)
(***************************************************************************)
RECURSIVE StrChars(_)
StrChars(n) ==
    IF n < 10 THEN <<DigitStr[n + 1]>>
    ELSE StrChars(n \div 10) \o <<DigitStr[(n % 10) + 1]>>

\* EntryID::print
print(id) == Str(id.milliseconds_time) \o "-" \o Str(id.sequence_number)
printChars(id) ==
    StrChars(id.milliseconds_time) \o <<"-">> \o StrChars(id.sequence_number)

EntryID(ms, seq) == [milliseconds_time |-> ms, sequence_number |-> seq]

\* the numbers an id of the model can spell
IdNumbers == (0 .. 3) \cup {10}
\* ids whose parts are not numbers: the expect() on parse panics
UnparsableIds == {"x-1"}

\* SystemTime::now() in ms since the epoch; the model's clock starts at Epoch
\* and is advanced MaxNow times at most
Epoch == 1000
MaxNow == 2
WallClockMs == Epoch + now

\* the ids the store can hold: those spelled, those computed for <ms>-*,
\* and those taken from the clock
StoredIds ==
    {EntryID(m, q) : m \in IdNumbers, q \in 0 .. 12}
        \cup {EntryID(Epoch + t, 0) : t \in 0 .. MaxNow}

\* s.chars(), for the strings of the model: a stream key, an id, a number
CharsTable == [s \in {"st", "s1"} |-> IF s = "st" THEN <<"s", "t">> ELSE <<"s", "1">>]
Chars(s) ==
    IF s = "" THEN <<>>
    ELSE IF Len(s) = 1 THEN <<s>>
    ELSE IF s \in DOMAIN CharsTable THEN CharsTable[s]
    ELSE IF \E n \in IdNumbers : s = Str(n)
    THEN StrChars(CHOOSE n \in IdNumbers : s = Str(n))
    ELSE printChars(CHOOSE id \in StoredIds : s = print(id))

\* the bytes of the characters of the model, and the order of str
Ascii ==
    [ch \in {"$", "*", "+", "-", "0", "1", "2", "3", "4", "5", "6", "7", "8",
             "9", "s", "t"} |->
        CASE ch = "$" -> 36 [] ch = "*" -> 42 [] ch = "+" -> 43
          [] ch = "-" -> 45 [] ch = "0" -> 48 [] ch = "1" -> 49
          [] ch = "2" -> 50 [] ch = "3" -> 51 [] ch = "4" -> 52
          [] ch = "5" -> 53 [] ch = "6" -> 54 [] ch = "7" -> 55
          [] ch = "8" -> 56 [] ch = "9" -> 57 [] ch = "s" -> 115
          [] ch = "t" -> 116]

\* a < b for two str: byte by byte, a proper prefix is the smaller
RECURSIVE StrLess(_, _)
StrLess(a, b) ==
    IF b = <<>> THEN FALSE
    ELSE IF a = <<>> THEN TRUE
    ELSE IF Head(a) # Head(b) THEN Ascii[Head(a)] < Ascii[Head(b)]
    ELSE StrLess(Tail(a), Tail(b))

StreamError(text) == [ok |-> FALSE, panic |-> FALSE, error |-> text]
ZeroError == StreamError("ERR The ID specified in XADD must be greater than 0-0")
SmallerThanTop ==
    StreamError("ERR The ID specified in XADD is equal or smaller than the target stream top item")
NotValid ==
    StreamError("ERR Cannot proess the entry id or it is less than or equal to the last one")
IdPanic == [ok |-> FALSE, panic |-> TRUE, error |-> ""]
IdOk(id) == [ok |-> TRUE, panic |-> FALSE, id |-> id]

new_entry_id(last, entry_id_str) ==
    IF entry_id_str = "*" THEN IdOk(EntryID(WallClockMs, 0))
    ELSE IF entry_id_str \in UnparsableIds THEN IdPanic
    ELSE IF \E ms \in IdNumbers : entry_id_str = Str(ms) \o "-*"
    THEN LET ms == CHOOSE m \in IdNumbers : entry_id_str = Str(m) \o "-*"
         IN  IdOk(EntryID(ms, IF ms > last.milliseconds_time THEN 0
                              ELSE last.sequence_number + 1))
    ELSE IF \E ms \in IdNumbers, sq \in IdNumbers :
                entry_id_str = print(EntryID(ms, sq))
    THEN LET id == CHOOSE i \in {EntryID(m, q) : m \in IdNumbers, q \in IdNumbers} :
                        entry_id_str = print(i)
         IN  IF id.milliseconds_time = 0 /\ id.sequence_number = 0
             THEN ZeroError
             ELSE IF id.milliseconds_time < last.milliseconds_time
             THEN SmallerThanTop
             ELSE IF id.milliseconds_time = last.milliseconds_time
                     /\ id.sequence_number <= last.sequence_number
             THEN SmallerThanTop
             ELSE IdOk(id)
    ELSE NotValid

DefaultNode == [entry |-> None, is_key |-> FALSE, is_entry_id |-> FALSE]

\* the nodes after the walk of insert: a node found is kept as it is, a node
\* created at the last character of the key is marked is_key, and the last
\* node of the path takes the entry
insert_nodes(tree, key, id, data) ==
    LET prefix == Chars(key) \o printChars(id)
        paths == {SubSeq(prefix, 1, i) : i \in 1 .. Len(prefix)}
        walked == [q \in (DOMAIN tree) \cup paths |->
                     IF q \in DOMAIN tree THEN tree[q]
                     ELSE [DefaultNode EXCEPT
                              !.is_key = (Len(q) = Len(Chars(key)))]]
    IN  [walked EXCEPT ![prefix] =
            [@ EXCEPT !.entry = Some([key |-> key, entry_id |-> print(id),
                                      data |-> data]),
                      !.is_entry_id = TRUE]]

\* mpsc::channel(32)
ChannelCapacity == 32

KeyNotFound == [ok |-> FALSE, error |-> "ERR The key specified does not exist!"]
NoEntriesInRange ==
    [ok |-> FALSE, error |-> "ERR The stream contains no entries in the range"]

\* the order in which the walk of xrange meets two nodes below the node of
\* the key: level by level, the children of a node in the order of their
\* characters
BfsBefore(p, q) == Len(p) < Len(q) \/ (Len(p) = Len(q) /\ StrLess(p, q))

RECURSIVE InBfsOrder(_)
InBfsOrder(paths) ==
    IF paths = {} THEN <<>>
    ELSE LET first == CHOOSE p \in paths :
                          \A q \in paths \ {p} : BfsBefore(p, q)
         IN  <<first>> \o InBfsOrder(paths \ {first})

\* xrange: the walk down the key, then every entry below the node reached
\* whose path from that node, as a str, lies in the range
xrange(S, key, start, end) ==
    LET k == Chars(key)
        from == IF start = "-" THEN <<>>
                ELSE IF start = "$" THEN printChars(S.last_entry_id)
                ELSE Chars(start)
        below == {p \in DOMAIN S.root :
                     /\ Len(p) >= Len(k)
                     /\ SubSeq(p, 1, Len(k)) = k
                     /\ S.root[p].entry.some}
        rest(p) == SubSeq(p, Len(k) + 1, Len(p))
        inRange(x) ==
            CASE end = "+" -> ~StrLess(x, from)
              [] end = "++" -> StrLess(from, x)
              [] OTHER -> ~StrLess(x, from) /\ ~StrLess(Chars(end), x)
        found == InBfsOrder({rest(p) : p \in {q \in below : inRange(rest(q))}})
    IN  IF \E i \in 1 .. Len(k) :
              \/ SubSeq(k, 1, i) \notin DOMAIN S.root
              \/ i < Len(k) /\ S.root[SubSeq(k, 1, i)].is_key
        THEN KeyNotFound
        ELSE IF found = <<>> THEN NoEntriesInRange
        ELSE [ok |-> TRUE,
              entries |-> [i \in 1 .. Len(found) |-> S.root[k \o found[i]].entry.v]]

\* check_key: the walk down the characters of the key stops at the first
\* node that is marked is_key; None when a character has no node or the
\* key ends before such a node
check_key(S, key) ==
    LET k == Chars(key)
        stops == {i \in 1 .. Len(k) :
                    /\ \A j \in 1 .. i : SubSeq(k, 1, j) \in DOMAIN S.root
                    /\ S.root[SubSeq(k, 1, i)].is_key}
    IN  IF stops = {} THEN None
        ELSE Some(CHOOSE i \in stops : \A j \in stops : i <= j)

\* the entries stored for stream `key`, and their ids as numbers
EntriesOf(tree, key) ==
    {tree[p].entry.v :
        p \in {q \in DOMAIN tree : tree[q].entry.some
                                    /\ tree[q].entry.v.key = key}}
IdOf(text) == CHOOSE id \in StoredIds : print(id) = text
IdsOf(tree, key) == {IdOf(e.entry_id) : e \in EntriesOf(tree, key)}

\* a task comes to check_availability for the key at position `at` of its
\* XREAD: it reads last_entry_id and asks for the lock of rx; the interval
\* ticks at once and then every `timeout` ms (history: `had`, the ids the
\* stream of the key holds at that point)
Waiter(S, c, timeout, key, entry_id, at) ==
    [conn |-> c, at |-> at, timeout |-> timeout,
     last_entry_id |-> print(S.last_entry_id),
     entry_id |-> IF entry_id = "$" THEN print(S.last_entry_id) ELSE entry_id,
     count |-> 2, had |-> IdsOf(S.root, key)]

\* the store after a successful insert with the computed id
stream_insert(S, key, id, data) ==
    [S EXCEPT !.last_entry_id = id,
              !.root = insert_nodes(@, key, id, data),
              !.stream_tx = IF Len(@) < ChannelCapacity
                            THEN Append(@, print(id)) ELSE @,
              !.notify = IF Len(S.stream_tx) < ChannelCapacity
                         THEN TRUE ELSE @]

(***************************************************************************)
(* The command handlers of process_socket_read.  A handler takes the       *)
(* shared state S and gives the shared state after it and the responses it *)
(* pushes.  `read` is str_from_network, the whole read the command came in.*)
(***************************************************************************)
Result(S, pushed) ==
    [S |-> S, pushed |-> pushed, panic |-> FALSE, blocked |-> FALSE,
     sleep |-> FALSE, clear |-> FALSE]
Panicked(S) ==
    [S |-> S, pushed |-> <<>>, panic |-> TRUE, blocked |-> FALSE,
     sleep |-> FALSE, clear |-> FALSE]

\* history: the write is recorded in `applied`
Record(S, c, key, value, exec) ==
    [S EXCEPT !.applied = Append(@, [conn |-> c, key |-> key,
                                     value |-> value, exec |-> exec])]

ExecuteGet(S, key) ==
    Result(kv_get_store(S, key),
           IF kv_get(S, key).some THEN <<Bulk(kv_get(S, key).v)>>
           ELSE <<NullBulk>>)

ExecuteSet(S, c, o, read, exec) ==
    LET S1 == Record(kv_insert(S, o.key, o.value, o.expiry),
                     c, o.key, o.value, exec)
    IN  Result(broadcast_peers(S1, read, Len(S1.applied)), <<Simple("OK")>>)

ExecuteIncr(S, c, o, read, exec) ==
    LET value == kv_get(S, o.key)
        S0 == kv_get_store(S, o.key)
        invalid == value.some /\ ~ParseI64(value.v).some
        new_value == IF value.some THEN ParseI64(value.v).v + 1 ELSE 1
        S1 == IF invalid THEN S0
              ELSE Record(kv_insert(S0, o.key, Str(new_value), None),
                          c, o.key, Str(new_value), exec)
    IN  Result(broadcast_peers(S1, read, IF invalid THEN 0 ELSE Len(S1.applied)),
               IF invalid
               THEN <<Error("ERR value is not an integer or out of range")>>
               ELSE <<Integer(new_value)>>)

ExecuteQueued(S, c, cmd, read) ==
    CASE cmd.cmd = "Get" -> ExecuteGet(S, cmd.key)
      [] cmd.cmd = "Set" -> ExecuteSet(S, c, cmd, read, TRUE)
      [] cmd.cmd = "Incr" -> ExecuteIncr(S, c, cmd, read, TRUE)
      [] OTHER -> Result(S, <<>>)

\* (variant) pop_back for pop_front: the queue is run from its end
RECURSIVE DrainBack(_, _, _, _, _)
DrainBack(S, c, queue, pushed, read) ==
    IF queue = <<>> THEN Result(S, pushed)
    ELSE LET r == ExecuteQueued(S, c, queue[Len(queue)], read)
         IN  DrainBack(r.S, c, SubSeq(queue, 1, Len(queue) - 1),
                       pushed \o r.pushed, read)

\* while let Some(cmd) = queue_lock.pop_front()
RECURSIVE Drain(_, _, _, _, _)
Drain(S, c, queue, pushed, read) ==
    IF queue = <<>> THEN Result(S, pushed)
    ELSE LET r == ExecuteQueued(S, c, Head(queue), read)
         IN  Drain(r.S, c, Tail(queue), pushed \o r.pushed, read)

InMulti(S, c) == c \in DOMAIN S.clients /\ S.clients[c].multi_lock

Enqueue(S, c, cmd) ==
    Result([S EXCEPT !.clients[c].multi_queue = Append(@, cmd)],
           <<Simple("QUEUED")>>)

MultiResult(S, c) ==
    Result(IF c \in DOMAIN S.clients
           THEN [S EXCEPT !.clients[c].multi_lock = TRUE] ELSE S,
           <<Simple("OK")>>)

\* (variant) queue_lock.clear() left out
DiscardKeeps(S, c) ==
    IF c \notin DOMAIN S.clients THEN Result(S, <<>>)
    ELSE IF ~S.clients[c].multi_lock
    THEN Result(S, <<Error("ERR DISCARD without MULTI")>>)
    ELSE Result([S EXCEPT !.clients[c].multi_lock = FALSE], <<Simple("OK")>>)

DiscardResult(S, c) ==
    IF c \notin DOMAIN S.clients THEN Result(S, <<>>)
    ELSE IF ~S.clients[c].multi_lock
    THEN Result(S, <<Error("ERR DISCARD without MULTI")>>)
    ELSE Result([S EXCEPT !.clients[c] = [multi_lock |-> FALSE,
                                          multi_queue |-> <<>>]],
                <<Simple("OK")>>)

ExecResult(S, c, read) ==
    IF c \notin DOMAIN S.clients THEN Result(S, <<>>)
    ELSE IF ~S.clients[c].multi_lock
    THEN Result(S, <<Error("ERR EXEC without MULTI")>>)
    ELSE LET queue == S.clients[c].multi_queue
             r == IF Len(queue) > 0
                  THEN Drain(S, c, queue, <<ArrayHeader(Len(queue))>>, read)
                  ELSE Result(S, <<ArrayHeader(0)>>)
         IN  Result([r.S EXCEPT !.clients[c] = [multi_lock |-> FALSE,
                                                multi_queue |-> <<>>]],
                    r.pushed)

\* KEYS: the header holds the counter of the store, then come the keys of
\* a copy of the map, in the order `order` in which the map yields them
KeysResult(S, order) ==
    Result(S, <<ArrayHeader(S.size) \o BulkBytes(order)>>)

\* TYPE: the key-value store is asked first (the lookup removes an expired
\* binding), then the stream store
TypeResult(S, o) ==
    Result(kv_get_store(S, o.key),
           IF kv_get(S, o.key).some THEN <<Simple("string")>>
           ELSE IF check_key(S, o.key).some THEN <<Simple("stream")>>
           ELSE <<Simple("none")>>)

GetResult(S, c, o) ==
    IF InMulti(S, c) THEN Enqueue(S, c, o) ELSE ExecuteGet(S, o.key)

\* (variant) multi_lock is not looked at
SetAtOnce(S, c, o, read) ==
    IF c \notin DOMAIN S.clients THEN Panicked(S)
    ELSE ExecuteSet(S, c, o, read, FALSE)

SetResult(S, c, o, read) ==
    IF c \notin DOMAIN S.clients THEN Panicked(S)
    ELSE IF S.clients[c].multi_lock THEN Enqueue(S, c, o)
    ELSE ExecuteSet(S, c, o, read, FALSE)

IncrResult(S, c, o, read) ==
    IF c \notin DOMAIN S.clients THEN Panicked(S)
    ELSE IF S.clients[c].multi_lock THEN Enqueue(S, c, o)
    ELSE ExecuteIncr(S, c, o, read, FALSE)

PingResult(S, o) ==
    Result(S, IF o.value.some THEN <<Simple(o.value.v)>> ELSE <<Simple("PONG")>>)

EchoResult(S, o) ==
    Result(S, IF o.value.some THEN <<Simple(o.value.v)>>
              ELSE <<Error("Error ERR wrong number of arguments for 'echo' command")>>)

\* port.parse::<u16>()
IsU16(text) == ParseI64(text).some /\ ParseI64(text).v \in 0 .. 65535
\* bytes_written.parse::<usize>()
IsUsize(text) == ParseI64(text).some /\ ParseI64(text).v >= 0

ReplconfResult(S, c, o) ==
    LET first == to_ascii_lowercase(o.args[1])
    IN  CASE first = "capa" ->
                Result(S, IF Len(o.args) > 1 /\ o.args[2] = "psync2"
                          THEN <<Simple("OK")>> ELSE <<>>)
          [] first = "listening-port" ->
                Result(S, IF IsU16(o.args[2]) THEN <<Simple("OK")>> ELSE <<>>)
          [] first = "ack" ->
                IF Len(o.args) < 2 \/ ~IsUsize(o.args[2]) THEN Panicked(S)
                ELSE Result(update_peers_bytes_written(
                                S, c, ParseI64(o.args[2]).v), <<>>)
          [] OTHER -> Result(S, <<>>)

IsFullSync(o) == Len(o.args) = 2 /\ o.args[1] = "?" /\ o.args[2] = "-1"

\* identify_replica after the command: the steps of the handshake are
\* recorded one by one, each with the read it came in
Identify(ident, cmd, read) ==
    LET last == ident[Len(ident)]
        step == CASE cmd.cmd = "Ping" -> Len(ident) = 0
                  [] cmd.cmd = "Replconf"
                     /\ to_ascii_lowercase(cmd.args[1]) = "listening-port" ->
                        Len(ident) = 1 /\ Contains(last, "ping")
                  [] cmd.cmd = "Replconf"
                     /\ to_ascii_lowercase(cmd.args[1]) = "capa" ->
                        Len(ident) = 2 /\ Contains(last, "replconf")
                  [] cmd.cmd = "Psync" ->
                        IsFullSync(cmd) /\ Len(ident) = 3
                        /\ Contains(last, "replconf")
                  [] OTHER -> FALSE
    IN  IF step THEN Append(ident, read) ELSE ident

PsyncResult(S, c, o, ident, read) ==
    IF ~IsFullSync(o) THEN Result(S, <<>>)
    ELSE Result(IF Len(Identify(ident, o, read)) > Len(ident)
                THEN insert_peer(S, c) ELSE S,
                <<FullResync, RdbFile>>)

\* the message WAIT broadcasts
GetAck == <<Arr(<<"REPLCONF", "GETACK", "*">>)>>

\* numreplicas.parse::<usize>() and timeout.parse::<u64>(), each under
\* expect()
WaitArgsOk(o) ==
    Len(o.args) = 2 /\ IsUsize(o.args[1]) /\ IsUsize(o.args[2])

\* WAIT up to the sleep: with numreplicas 0 the peer count is the reply,
\* otherwise GETACK is broadcast and the task sleeps
WaitResult(S, o) ==
    IF ~WaitArgsOk(o) THEN Panicked(S)
    ELSE IF ParseI64(o.args[1]).v = 0
    THEN Result(S, <<Integer(Cardinality(DOMAIN S.peers))>>)
    ELSE [Result(broadcast_peers(S, GetAck, 0), <<>>) EXCEPT !.sleep = TRUE]

\* WAIT after the sleep
WaitReply(S) ==
    IF count_peers_commands_processed(S) = 0
    THEN Cardinality(DOMAIN S.peers)
    ELSE verify_peers_propagation(S, Len(Bytes(GetAck)))

XaddResult(S, o) ==
    LET id == new_entry_id(S.last_entry_id, o.entry_id)
    IN  IF id.panic THEN Panicked(S)
        ELSE IF ~id.ok THEN Result(S, <<Error(id.error)>>)
        ELSE [Result(stream_insert(S, o.key, id.id, o.args),
                     <<Bulk(print(id.id))>>)
                EXCEPT !.blocked = ~(Len(S.stream_tx) < ChannelCapacity)]

\* format_xrange_output
RECURSIVE FieldsBytes(_)
FieldsBytes(data) ==
    IF data = <<>> THEN ""
    ELSE Bulk(Head(data)[1]) \o Bulk(Head(data)[2]) \o FieldsBytes(Tail(data))

RECURSIVE EntriesBytes(_)
EntriesBytes(items) ==
    IF items = <<>> THEN ""
    ELSE ArrayHeader(2) \o Bulk(Head(items).entry_id)
         \o ArrayHeader(Len(Head(items).data) * 2)
         \o FieldsBytes(Head(items).data) \o EntriesBytes(Tail(items))

format_xrange_output(items_in_range) ==
    IF items_in_range # <<>>
    THEN <<ArrayHeader(Len(items_in_range)) \o EntriesBytes(items_in_range)>>
    ELSE <<NullBulk>>

XrangeResult(S, o) ==
    LET items_in_range == xrange(S, o.key, o.start, o.end)
    IN  Result(S, IF items_in_range.ok
                  THEN format_xrange_output(items_in_range.entries)
                  ELSE <<NullBulk>>)

\* what XREAD pushes before the entries of a key
KeyHeader(key) == ArrayHeader(2) \o Bulk(key)

\* XREAD without BLOCK, the keys from position i on: a key without entries
\* in the range clears all the responses collected and pushes the null
RECURSIVE xread_keys(_, _, _, _)
xread_keys(S, o, i, r) ==
    IF i > Len(o.keys) THEN r
    ELSE LET items_in_range == xrange(S, o.keys[i], o.entry_ids[i], "++")
         IN  xread_keys(S, o, i + 1,
                 IF items_in_range.ok
                 THEN [r EXCEPT !.pushed =
                          @ \o <<KeyHeader(o.keys[i])>>
                            \o format_xrange_output(items_in_range.entries)]
                 ELSE [r EXCEPT !.pushed = <<NullBulk>>, !.clear = TRUE])

\* XREAD BLOCK, the keys from position i on, with `pushed` collected so
\* far: up to the first key without entries in the range (at, where the
\* task goes to check_availability), or to the end (at = 0)
RECURSIVE xread_block(_, _, _, _)
xread_block(S, o, i, pushed) ==
    IF i > Len(o.keys) THEN [pushed |-> pushed, at |-> 0]
    ELSE LET items_in_range == xrange(S, o.keys[i], o.entry_ids[i], "++")
         IN  IF items_in_range.ok
             THEN xread_block(S, o, i + 1,
                      pushed \o <<KeyHeader(o.keys[i])>>
                             \o format_xrange_output(items_in_range.entries))
             ELSE [pushed |-> pushed, at |-> i]

\* the handler of XREAD up to its end or to its first check_availability
XreadResult(S, c, o) ==
    IF ~o.block.some
    THEN xread_keys(S, o, 1, Result(S, <<ArrayHeader(Len(o.keys))>>))
    ELSE LET r == xread_block(S, o, 1, <<ArrayHeader(Len(o.keys))>>)
         IN  Result(IF r.at = 0 THEN S
                    ELSE [S EXCEPT !.waiters =
                             Append(@, Waiter(S, c, o.block.v, o.keys[r.at],
                                              o.entry_ids[r.at], r.at))],
                    r.pushed)

\* the locks of the shared state a handler holds together, at some point of
\* its run, for the command o of connection c: the handlers of the commands
\* a transaction can queue take the write lock of the client table first
\* and keep it while they call the key-value store and broadcast_peers
locks_held(S, c, o) ==
    LET multi == InMulti(S, c)
        lookup == {{"clients", "kv_store"}}
        write == {{"clients", "kv_store"}, {"clients", "peers"}}
        of(cmd) == IF cmd.cmd = "Get" THEN lookup ELSE write
    IN  CASE o.cmd = "Get" -> IF multi THEN {{"clients"}} ELSE lookup
          [] o.cmd \in {"Set", "Incr"} ->
                IF multi \/ c \notin DOMAIN S.clients THEN {{"clients"}}
                ELSE write
          [] o.cmd = "Exec" ->
                {{"clients"}}
                   \cup (IF multi
                         THEN UNION {of(S.clients[c].multi_queue[i]) :
                                        i \in DOMAIN S.clients[c].multi_queue}
                         ELSE {})
          [] o.cmd \in {"Multi", "Discard"} -> {{"clients"}}
          [] o.cmd \in {"Psync", "Wait", "Replconf"} -> {{"peers"}}
          [] o.cmd \in {"Xadd", "Xrange", "Xread"} -> {{"stream_store"}}
          [] OTHER -> {}

(***************************************************************************)
(* The connection task: Connection::handle and process_socket_read.        *)
(*                                                                         *)
(* pc[c] is "none" before the connection is accepted, "select" when its    *)
(* task waits in select!, "process" inside process_socket_read between two *)
(* items of a read, "write" when process_socket_read has returned and the  *)
(* responses are to be written, "closed" when the task has ended.          *)
(* Reading the socket touches nothing but the task's own buffer, so the    *)
(* read and the handler of its first item are one step.                    *)
(***************************************************************************)
\* what a handler can be given: the next item of the read in progress, or
\* the first item of a new read, one of `sends`
Inputs(c, sends) ==
    IF pc[c] = "process"
    THEN {[read |-> str_from_network[c], at |-> cursor[c]]}
    ELSE IF pc[c] = "select" /\ reads < MaxReads
    THEN {[read |-> read, at |-> 1] : read \in sends}
    ELSE {}

Item(in) == in.read[in.at]
\* RespData::parse, then parse_command on the array
Parsed(in) == parse_command(RespParse(Item(in)).v)

\* the task of the connection ends: the receiver of its channel is dropped
Dropped(queues, c) == [queues EXCEPT ![c] = <<>>]

\* the input is for the handler of command `name`
At(in, name) ==
    ~RespInvalid(in.read) /\ Item(in).kind = "array" /\ Parsed(in).cmd = name

\* the task's own state when it takes the input
Taken(c, in) ==
    /\ str_from_network' = [str_from_network EXCEPT ![c] = in.read]
    /\ cursor' = [cursor EXCEPT ![c] = in.at + 1]
    /\ reads' = IF in.at = 1 THEN reads + 1 ELSE reads

\* the state after a handler with result r
Commit(c, in, r, ident) ==
    /\ Taken(c, in)
    /\ clients' = r.S.clients
    /\ peers' = r.S.peers
    /\ hash_map' = r.S.hash_map
    /\ size' = r.S.size
    /\ expire_size' = r.S.expire_size
    /\ root' = r.S.root
    /\ last_entry_id' = r.S.last_entry_id
    /\ stream_tx' = r.S.stream_tx
    /\ notify' = r.S.notify
    /\ applied' = r.S.applied
    /\ identify_replica' = [identify_replica EXCEPT ![c] = ident]
    /\ responses' = [responses EXCEPT ![c] =
                        (IF in.at = 1 \/ r.clear THEN <<>> ELSE @) \o r.pushed]
    /\ rx' = IF r.panic THEN Dropped(r.S.rx, c) ELSE r.S.rx
    /\ pc' = [pc EXCEPT ![c] =
                IF r.panic THEN "closed"
                ELSE IF r.sleep THEN "sleep"
                ELSE IF r.blocked THEN "blocked"
                ELSE IF \E i \in DOMAIN r.S.waiters : r.S.waiters[i].conn = c
                THEN "xread"
                ELSE IF in.at = Len(in.read) THEN "write"
                ELSE "process"]
    /\ waiters' = r.S.waiters
    /\ UNCHANGED <<sock, now, follower, task>>

\* Leader::run: the listener accepts the connection, inserts its client
\* record and spawns its task
Accept(c) ==
    /\ pc[c] = "none"
    /\ pc' = [pc EXCEPT ![c] = "select"]
    /\ clients' = insert_client(Shared, c).clients
    /\ UNCHANGED <<str_from_network, cursor, responses, identify_replica, rx,
                   sock, peers, hash_map, size, expire_size, now, root,
                   last_entry_id, stream_tx, notify, reads, applied,
                   follower, waiters, task>>

\* Follower::run: the listener of a follower accepts the connection and
\* spawns its task; no client record is inserted
AcceptOnFollower(c) ==
    /\ pc[c] = "none"
    /\ pc' = [pc EXCEPT ![c] = "select"]
    /\ UNCHANGED <<str_from_network, cursor, responses, identify_replica, rx,
                   sock, clients, peers, hash_map, size, expire_size, now,
                   root, last_entry_id, stream_tx, notify, reads, applied,
                   follower, waiters, task>>

\* what is written to a socket: the bytes, and for a forwarded message the
\* items these bytes spell (history: the write of `applied` it is for)
Written(kind, items, bytes, w) ==
    [kind |-> kind, items |-> items, bytes |-> bytes, w |-> w]

\* (variant) the channel is drained while the responses of a read are
\* still to be written
ForwardEarly(c) ==
    /\ pc[c] \in {"select", "write"}
    /\ rx[c] # <<>>
    /\ sock' = [sock EXCEPT ![c] =
                  Append(@, Written("message", Head(rx[c]).read,
                                    Bytes(Head(rx[c]).read), Head(rx[c]).w))]
    /\ rx' = [rx EXCEPT ![c] = Tail(@)]
    /\ UNCHANGED <<pc, str_from_network, cursor, responses, identify_replica,
                   clients, peers, hash_map, size, expire_size, now, root,
                   last_entry_id, stream_tx, notify, reads, applied,
                   follower, waiters, task>>

Forward(c) ==
    /\ pc[c] = "select"
    /\ rx[c] # <<>>
    /\ sock' = [sock EXCEPT ![c] =
                  Append(@, Written("message", Head(rx[c]).read,
                                    Bytes(Head(rx[c]).read), Head(rx[c]).w))]
    /\ rx' = [rx EXCEPT ![c] = Tail(@)]
    /\ UNCHANGED <<pc, str_from_network, cursor, responses, identify_replica,
                   clients, peers, hash_map, size, expire_size, now, root,
                   last_entry_id, stream_tx, notify, reads, applied,
                   follower, waiters, task>>

\* self.write(responses) after process_socket_read
Write(c) ==
    /\ pc[c] = "write"
    /\ sock' = [sock EXCEPT ![c] =
                  @ \o [i \in 1 .. Len(responses[c]) |->
                           Written("response", <<>>, responses[c][i], 0)]]
    /\ pc' = [pc EXCEPT ![c] = "select"]
    /\ UNCHANGED <<str_from_network, cursor, responses, identify_replica, rx,
                   clients, peers, hash_map, size, expire_size, now, root,
                   last_entry_id, stream_tx, notify, reads, applied,
                   follower, waiters, task>>

\* the read returns 0 bytes (the remote end closed): handle returns, the
\* task ends; no record of the connection is removed
Close(c) ==
    /\ pc[c] = "select"
    /\ pc' = [pc EXCEPT ![c] = "closed"]
    /\ rx' = Dropped(rx, c)
    /\ UNCHANGED <<str_from_network, cursor, responses, identify_replica,
                   sock, clients, peers, hash_map, size, expire_size, now,
                   root, last_entry_id, stream_tx, notify, reads, applied,
                   follower, waiters, task>>

\* an item that is no array (Err(RespError::Invalid)), or a command whose
\* parsing panics: the task ends without writing the responses collected
Abort(c, sends) ==
    \E in \in Inputs(c, sends) :
        /\ ~RespInvalid(in.read)
        /\ Item(in).kind # "array" \/ Parsed(in).cmd = "Panic"
        /\ Taken(c, in)
        /\ pc' = [pc EXCEPT ![c] = "closed"]
        /\ rx' = Dropped(rx, c)
        /\ UNCHANGED <<responses, identify_replica, sock, clients, peers,
                       hash_map, size, expire_size, now, root, last_entry_id,
                       stream_tx, notify, applied, follower,
                       waiters, task>>

\* RespData::parse fails on the read: process_socket_read returns the error
\* before any command of the read is handled, and the task ends
InvalidRead(c, sends) ==
    \E in \in Inputs(c, sends) :
        /\ in.at = 1
        /\ RespInvalid(in.read)
        /\ str_from_network' = [str_from_network EXCEPT ![c] = in.read]
        /\ cursor' = [cursor EXCEPT ![c] = 1]
        /\ reads' = reads + 1
        /\ pc' = [pc EXCEPT ![c] = "closed"]
        /\ rx' = Dropped(rx, c)
        /\ UNCHANGED <<responses, identify_replica, sock, clients,
                       peers, hash_map, size, expire_size, now, root,
                       last_entry_id, stream_tx, notify, applied, follower,
                       waiters, task>>

Ping(c, sends) ==
    \E in \in Inputs(c, sends) :
        /\ At(in, "Ping")
        /\ Commit(c, in, PingResult(Shared, Parsed(in)),
                  Identify(identify_replica[c], Parsed(in), in.read))

Echo(c, sends) ==
    \E in \in Inputs(c, sends) :
        /\ At(in, "Echo")
        /\ Commit(c, in, EchoResult(Shared, Parsed(in)), identify_replica[c])

Multi(c, sends) ==
    \E in \in Inputs(c, sends) :
        /\ At(in, "Multi")
        /\ Commit(c, in, MultiResult(Shared, c), identify_replica[c])

Discard(c, sends) ==
    \E in \in Inputs(c, sends) :
        /\ At(in, "Discard")
        /\ Commit(c, in, DiscardResult(Shared, c), identify_replica[c])

Exec(c, sends) ==
    \E in \in Inputs(c, sends) :
        /\ At(in, "Exec")
        /\ Commit(c, in, ExecResult(Shared, c, in.read), identify_replica[c])

Get(c, sends) ==
    \E in \in Inputs(c, sends) :
        /\ At(in, "Get")
        /\ Commit(c, in, GetResult(Shared, c, Parsed(in)), identify_replica[c])

Type(c, sends) ==
    \E in \in Inputs(c, sends) :
        /\ At(in, "Type")
        /\ Commit(c, in, TypeResult(Shared, Parsed(in)), identify_replica[c])

\* the orders in which a HashMap with the keys K can yield them
Orders(K) ==
    {order \in [1 .. Cardinality(K) -> K] :
        \A i, j \in DOMAIN order : order[i] = order[j] => i = j}

Keys(c, sends) ==
    \E in \in Inputs(c, sends) :
        /\ At(in, "Keys")
        /\ \E order \in Orders(DOMAIN hash_map) :
              Commit(c, in, KeysResult(Shared, order), identify_replica[c])

Set(c, sends) ==
    \E in \in Inputs(c, sends) :
        /\ At(in, "Set")
        /\ Commit(c, in, SetResult(Shared, c, Parsed(in), in.read),
                  identify_replica[c])

Incr(c, sends) ==
    \E in \in Inputs(c, sends) :
        /\ At(in, "Incr")
        /\ Commit(c, in, IncrResult(Shared, c, Parsed(in), in.read),
                  identify_replica[c])

Replconf(c, sends) ==
    \E in \in Inputs(c, sends) :
        /\ At(in, "Replconf")
        /\ Commit(c, in, ReplconfResult(Shared, c, Parsed(in)),
                  Identify(identify_replica[c], Parsed(in), in.read))

Psync(c, sends) ==
    \E in \in Inputs(c, sends) :
        /\ At(in, "Psync")
        /\ Commit(c, in, PsyncResult(Shared, c, Parsed(in), identify_replica[c],
                                     in.read),
                  Identify(identify_replica[c], Parsed(in), in.read))

Xadd(c, sends) ==
    \E in \in Inputs(c, sends) :
        /\ At(in, "Xadd")
        /\ Commit(c, in, XaddResult(Shared, Parsed(in)), identify_replica[c])

Xrange(c, sends) ==
    \E in \in Inputs(c, sends) :
        /\ At(in, "Xrange")
        /\ Commit(c, in, XrangeResult(Shared, Parsed(in)), identify_replica[c])

Xread(c, sends) ==
    \E in \in Inputs(c, sends) :
        /\ At(in, "Xread")
        /\ Commit(c, in, XreadResult(Shared, c, Parsed(in)),
                  identify_replica[c])

\* the XREAD a task in check_availability is handling
Reading(c) ==
    parse_command(RespParse(str_from_network[c][cursor[c] - 1]).v)

\* check_availability has returned for the key at position `at`, with
\* `pushed` as the responses: the lock of rx is released, the loop over the
\* keys goes on, to its end or to the next check_availability
XreadGoesOn(c, at, pushed) ==
    LET o == Reading(c)
        r == xread_block(Shared, o, at + 1, pushed)
    IN  /\ responses' = [responses EXCEPT ![c] = r.pushed]
        /\ waiters' = IF r.at = 0 THEN Tail(waiters)
                       ELSE Append(Tail(waiters),
                                   Waiter(Shared, c, o.block.v, o.keys[r.at],
                                          o.entry_ids[r.at], r.at))
        /\ pc' = [pc EXCEPT ![c] =
                    IF r.at # 0 THEN "xread"
                    ELSE IF cursor[c] > Len(str_from_network[c]) THEN "write"
                    ELSE "process"]

\* check_availability, the branch of interval.tick(): with a timeout the
\* second tick returns None, the responses are cleared and the null is
\* pushed; without one (BLOCK 0) the ticks are counted up
XreadTick(c) ==
    /\ waiters # <<>>
    /\ Head(waiters).conn = c
    /\ LET w == Head(waiters)
           count == IF w.timeout > 0 THEN w.count - 1 ELSE w.count + 1
       IN  /\ w.timeout = 0 => w.count < MaxCount
           /\ IF count = 0
              THEN XreadGoesOn(c, w.at, <<NullBulk>>)
              ELSE /\ waiters' = <<[w EXCEPT !.count = count]>> \o Tail(waiters)
                   /\ UNCHANGED <<pc, responses>>
    /\ UNCHANGED <<str_from_network, cursor, identify_replica, rx, sock,
                   clients, peers, hash_map, size, expire_size, now, root,
                   last_entry_id, stream_tx, notify, reads, applied, follower,
                   task>>

\* check_availability, the branch of notify.notified(): the permit is taken
\* and the oldest id in the channel is received; if it is greater, as a
\* str, than the id waited for, the entries of the key above that id are
\* pushed (nothing is pushed if xrange fails)
XreadNotified(c) ==
    /\ waiters # <<>>
    /\ Head(waiters).conn = c
    /\ notify
    /\ stream_tx # <<>>
    /\ notify' = FALSE
    /\ stream_tx' = Tail(stream_tx)
    /\ LET w == Head(waiters)
           key == Reading(c).keys[w.at]
           items_in_range == xrange(Shared, key, w.entry_id, "++")
       IN  IF StrLess(Chars(w.entry_id), Chars(Head(stream_tx)))
           THEN XreadGoesOn(c, w.at,
                    responses[c]
                       \o (IF items_in_range.ok
                           THEN <<KeyHeader(key)>>
                                   \o format_xrange_output(items_in_range.entries)
                           ELSE <<>>))
           ELSE UNCHANGED <<pc, responses, waiters, task>>
    /\ UNCHANGED <<str_from_network, cursor, identify_replica, rx, sock,
                   clients, peers, hash_map, size, expire_size, now, root,
                   last_entry_id, reads, applied, follower, task>>

\* insert, waiting in tx.send() with the channel full: a slot has become
\* free, the id is sent, a permit is stored and insert returns (the reply
\* of the XADD is the last of the responses: it holds the id)
XaddUnblocked(c) ==
    /\ pc[c] = "blocked"
    /\ Len(stream_tx) < ChannelCapacity
    /\ LET reply == responses[c][Len(responses[c])]
           id == CHOOSE x \in StoredIds : Bulk(print(x)) = reply
       IN  stream_tx' = Append(stream_tx, print(id))
    /\ notify' = TRUE
    /\ pc' = [pc EXCEPT ![c] =
                IF cursor[c] > Len(str_from_network[c]) THEN "write"
                ELSE "process"]
    /\ UNCHANGED <<str_from_network, cursor, responses, identify_replica, rx,
                   sock, clients, peers, hash_map, size, expire_size, now,
                   root, last_entry_id, reads, applied, follower, waiters,
                   task>>

\* a millisecond passes
Tick ==
    /\ now < MaxNow
    /\ now' = now + 1
    /\ UNCHANGED <<pc, str_from_network, cursor, responses, identify_replica,
                   rx, sock, clients, peers, hash_map, size, expire_size, root,
                   last_entry_id, stream_tx, notify, reads, applied, follower,
                   waiters, task>>

\* WAIT: the handler up to time::sleep
Wait(c, sends) ==
    \E in \in Inputs(c, sends) :
        /\ At(in, "Wait")
        /\ Commit(c, in, WaitResult(Shared, Parsed(in)), identify_replica[c])

\* WAIT: the sleep is over, the peers are counted and the reply is pushed.
\* Where the subtraction of verify_peers_propagation overflows, a build
\* with overflow checks panics and one without them goes on.
WaitDone(c) ==
    /\ pc[c] = "sleep"
    /\ \/ /\ responses' = [responses EXCEPT ![c] =
                                Append(@, Integer(WaitReply(Shared)))]
          /\ pc' = [pc EXCEPT ![c] =
                      IF cursor[c] > Len(str_from_network[c]) THEN "write"
                      ELSE "process"]
          /\ rx' = rx
       \/ /\ count_peers_commands_processed(Shared) # 0
          /\ Underflows(Shared, Len(Bytes(GetAck)))
          /\ pc' = [pc EXCEPT ![c] = "closed"]
          /\ rx' = Dropped(rx, c)
          /\ responses' = responses
    /\ UNCHANGED <<str_from_network, cursor, identify_replica, sock, clients,
                   peers, hash_map, size, expire_size, now, root,
                   last_entry_id, stream_tx, notify, reads, applied,
                   follower, waiters, task>>

\* Err(e) of parse_command: the message is the response
CommandError(c, sends) ==
    \E in \in Inputs(c, sends) :
        /\ At(in, "Error")
        /\ Commit(c, in, Result(Shared, <<Error(Parsed(in).message)>>),
                  identify_replica[c])

(***************************************************************************)
(* The follower.  Follower::run creates the follower's own SharedState and *)
(* spawns follower_thread, which connects to the leader, does the          *)
(* handshake and then reads what the leader writes.  The follower is the   *)
(* remote end of connection "r": sock["r"] is what it reads.  A read of    *)
(* the follower returns the bytes of one or more writes of the leader (the *)
(* reads of the model end where a write of the leader ends); the thread    *)
(* is the only task that touches bytes_received, and the handling of a     *)
(* read is one step.                                                       *)
(***************************************************************************)
\* pc is "handshake" in follower_handshake, "loop" in the loop of
\* follower_thread, "ended" once the thread has panicked, "connect" before
\* TcpStream::connect in follower_connect, "failed" once follower_connect
\* has returned its error; backoff is the variable of follower_connect,
\* step the read of follower_handshake that comes next, got (history) what
\* the reads of this handshake returned; taken is the
\* number of writes of the leader read so far; stream is what the follower
\* has written to the leader; acks is the history of the ACKs, each with
\* the position of its GETACK and of the last command of its read among
\* the commands received
NewFollower ==
    [pc |-> "handshake", taken |-> 0, bytes_received |-> 0,
     hash_map |-> <<>>, size |-> 0, expire_size |-> 0,
     stream |-> <<>>, acks |-> <<>>, backoff |-> 1, step |-> 1, got |-> <<>>]

\* the commands the leader has written to the follower's socket
RECURSIVE Flatten(_)
Flatten(writes) ==
    IF writes = <<>> THEN <<>>
    ELSE Head(writes).items \o Flatten(Tail(writes))

\* calculate_bytes: the command written again from its parsed elements, an
\* Integer in its canonical form
Reencoded(v) ==
    "*" \o Str(Len(v)) \o CRLF \o BulkBytes([i \in 1 .. Len(v) |-> AsText(v[i])])

\* (variant) the counter after the addition is the total
RECURSIVE calculate_bytes_after(_, _, _)
calculate_bytes_after(bytes_received, parsed, total_bytes) ==
    IF parsed = <<>>
    THEN [total_bytes |-> total_bytes, bytes_received |-> bytes_received,
          panic |-> FALSE]
    ELSE IF Head(parsed).t # "Array"
    THEN [total_bytes |-> total_bytes, bytes_received |-> bytes_received,
          panic |-> TRUE]
    ELSE calculate_bytes_after(bytes_received + Len(Reencoded(Head(parsed).v)),
                               Tail(parsed),
                               bytes_received + Len(Reencoded(Head(parsed).v)))

\* calculate_bytes: every array of the read is added to bytes_received;
\* total_bytes is what fetch_add returned last, the counter before the last
\* array of the read was added; a value that is no array is todo!()
RECURSIVE calculate_bytes(_, _, _)
calculate_bytes(bytes_received, parsed, total_bytes) ==
    IF parsed = <<>>
    THEN [total_bytes |-> total_bytes, bytes_received |-> bytes_received,
          panic |-> FALSE]
    ELSE IF Head(parsed).t # "Array"
    THEN [total_bytes |-> total_bytes, bytes_received |-> bytes_received,
          panic |-> TRUE]
    ELSE calculate_bytes(bytes_received + Len(Reencoded(Head(parsed).v)),
                         Tail(parsed), bytes_received)

\* the reply to REPLCONF GETACK *
Ack(total_bytes) == Bytes(<<Arr(<<"REPLCONF", "ACK", Str(total_bytes)>>)>>)

\* the match on the command of one array: SET is applied, REPLCONF GETACK *
\* is answered with total_bytes, every other command is left alone
follower_command(F, o, total_bytes, at, last) ==
    CASE o.cmd = "Set" -> kv_insert(F, o.key, o.value, o.expiry)
      [] o.cmd = "Replconf" /\ to_ascii_lowercase(o.args[1]) = "getack" ->
            IF Len(o.args) < 2 THEN [F EXCEPT !.pc = "ended"]
            ELSE IF to_ascii_lowercase(o.args[2]) = "*"
            THEN [F EXCEPT !.stream = Append(@, Ack(total_bytes)),
                           !.acks = Append(@, [value |-> total_bytes,
                                               at |-> at, last |-> last])]
            ELSE F
      [] o.cmd = "Panic" -> [F EXCEPT !.pc = "ended"]
      [] OTHER -> F

\* while let Some(parsed) = resp_parsed_iter.next()
RECURSIVE follower_commands(_, _, _, _, _)
follower_commands(F, parsed, total_bytes, at, last) ==
    IF parsed = <<>> \/ F.pc = "ended" THEN F
    ELSE follower_commands(
             follower_command(F, parse_command(Head(parsed).v), total_bytes,
                              at, last),
             Tail(parsed), total_bytes, at + 1, last)

\* follower_handshake: the four steps have been answered with PONG, OK, OK
\* and FULLRESYNC with the RDB file, which the handshake reads in full
FollowerHandshake ==
    /\ follower.pc = "handshake"
    /\ Len(sock["r"]) >= 5
    /\ [i \in 1 .. 5 |-> sock["r"][i].bytes]
          = <<Simple("PONG"), Simple("OK"), Simple("OK"), FullResync, RdbFile>>
    /\ follower' = [follower EXCEPT !.pc = "loop", !.taken = 5]
    /\ UNCHANGED <<pc, str_from_network, cursor, responses, identify_replica,
                   rx, sock, clients, peers, hash_map, size, expire_size, now,
                   root, last_entry_id, stream_tx, notify, reads, applied,
                   waiters, task>>

\* one turn of the loop of follower_thread: a read of n writes of the leader
FollowerRead ==
    /\ follower.pc = "loop"
    /\ \E n \in 1 .. (Len(sock["r"]) - follower.taken) :
          LET writes == SubSeq(sock["r"], follower.taken + 1, follower.taken + n)
              before == Len(Flatten(SubSeq(sock["r"], 1, follower.taken)))
              items == Flatten(writes)
              parsed == [i \in 1 .. Len(items) |-> RespParse(items[i])]
              counted == calculate_bytes(follower.bytes_received, parsed, 0)
              F == [follower EXCEPT !.taken = @ + n,
                                    !.bytes_received = counted.bytes_received]
          IN  follower' =
                 IF counted.panic
                    \/ \E i \in 1 .. n : writes[i].kind # "message"
                 THEN [F EXCEPT !.pc = "ended"]
                 ELSE follower_commands(F, parsed, counted.total_bytes,
                                        before + 1, before + Len(items))
    /\ UNCHANGED <<pc, str_from_network, cursor, responses, identify_replica,
                   rx, sock, clients, peers, hash_map, size, expire_size, now,
                   root, last_entry_id, stream_tx, notify, reads, applied,
                   waiters, task>>

\* "if backoff > 64"
MaxBackoff == 64

\* what a read of the handshake can return: the reply the step expects,
\* another reply, nothing because the leader has closed the connection, or
\* an error
Replies == {"expected", "other", "closed", "error"}

\* follower_handshake, the read of step 1..3 (PING and the two REPLCONF), of
\* step 4 (the 56 bytes of +FULLRESYNC), of step 5 (the line with the
\* length of the RDB file) and of step 6 (the file): whether the handshake
\* goes on to the next read, returns Ok or Err, or panics.  A read of 0
\* bytes in steps 1..3 finds the buffer empty and returns Ok; an error of a
\* read is not looked at; parsed[0] of an empty line is out of bounds.
follower_handshake(step, reply) ==
    IF step \in 1 .. 3
    THEN CASE reply = "expected" -> "next"
           [] reply = "other" -> "Err"
           [] reply = "closed" -> "Ok"
           [] reply = "error" -> "next"
    ELSE IF step = 4 THEN (IF reply = "expected" THEN "next" ELSE "Err")
    ELSE IF step = 5
    THEN CASE reply = "expected" -> "next"
           [] reply = "other" -> "Err"
           [] OTHER -> "panic"
    ELSE IF reply = "other" THEN "Err" ELSE "Ok"

\* follower_connect after a failure of connect or of the handshake: the
\* error is returned once backoff is above 64, otherwise the task sleeps
\* for backoff seconds, doubles it and connects again
Backoff(F) ==
    IF F.backoff > MaxBackoff THEN [F EXCEPT !.pc = "failed"]
    ELSE [F EXCEPT !.pc = "connect", !.backoff = @ * 2, !.step = 1,
                   !.got = <<>>]

\* TcpStream::connect
FollowerConnect ==
    /\ follower.pc = "connect"
    /\ \E connected \in BOOLEAN :
          follower' = IF connected THEN [follower EXCEPT !.pc = "handshake"]
                      ELSE Backoff(follower)
    /\ UNCHANGED <<pc, str_from_network, cursor, responses, identify_replica,
                   rx, sock, clients, peers, hash_map, size, expire_size, now,
                   root, last_entry_id, stream_tx, notify, reads, applied,
                   waiters, task>>

\* one read of follower_handshake, and what follower_connect and
\* follower_thread do with its result
FollowerReply ==
    /\ follower.pc = "handshake"
    /\ \E reply \in Replies :
          LET result == follower_handshake(follower.step, reply)
              F == [follower EXCEPT !.got = Append(@, reply)]
          IN  follower' =
                 CASE result = "next" -> [F EXCEPT !.step = @ + 1]
                   [] result = "Ok" -> [F EXCEPT !.pc = "loop"]
                   [] result = "panic" -> [F EXCEPT !.pc = "ended"]
                   [] result = "Err" -> Backoff(F)
    /\ UNCHANGED <<pc, str_from_network, cursor, responses, identify_replica,
                   rx, sock, clients, peers, hash_map, size, expire_size, now,
                   root, last_entry_id, stream_tx, notify, reads, applied,
                   waiters, task>>

(***************************************************************************)
(* What the remote ends send.                                              *)
(***************************************************************************)
One(elems) == <<Arr(elems)>>

\* the transaction commands, one per read or several in one read
TxSends(c) ==
    CASE c = "a" -> {One(<<"MULTI">>), One(<<"EXEC">>), One(<<"DISCARD">>),
                     One(<<"SET", "k", "1">>), One(<<"INCR", "k">>),
                     One(<<"GET", "k">>),
                     One(<<"XADD", "s", "1-1", "f", "v">>),
                     <<Arr(<<"MULTI">>), Arr(<<"SET", "k", "1">>),
                       Arr(<<"INCR", "k">>)>>,
                     <<Arr(<<"MULTI">>), Arr(<<"INCR", "k">>),
                       Arr(<<"GET", "k">>)>>,
                     <<Arr(<<"MULTI">>),
                       Arr(<<"XADD", "s", "1-1", "f", "v">>)>>}
      [] c = "b" -> {One(<<"GET", "k">>), One(<<"SET", "k", "x">>),
                     <<Arr(<<"MULTI">>), Arr(<<"SET", "k", "x">>)>>}
      [] OTHER -> {}

\* the handshake of a follower, in one read
Handshake ==
    <<Arr(<<"PING">>), Arr(<<"REPLCONF", "listening-port", "6380">>),
      Arr(<<"REPLCONF", "capa", "psync2">>), Arr(<<"PSYNC", "?", "-1">>)>>

\* a client that is no follower: another command in between, and a
\* capability that is not psync2
Deviant ==
    <<Arr(<<"PING">>), Arr(<<"GET", "k">>),
      Arr(<<"REPLCONF", "listening-port", "6380">>),
      Arr(<<"REPLCONF", "capa", "eof">>), Arr(<<"PSYNC", "?", "-1">>)>>

\* a client with its writes, its transactions and its mistakes, and a
\* connection that may be a follower (and may send a write all the same)
Sends(c) ==
    CASE c = "a" -> {One(<<"SET", "k", "1">>), One(<<"INCR", "k">>),
                     One(<<"EXEC">>), One(<<"DISCARD">>),
                     <<Arr(<<"MULTI">>), Arr(<<"SET", "k", "1">>)>>,
                     <<Arr(<<"MULTI">>), Arr(<<"INCR", "k">>),
                       Arr(<<"DISCARD">>)>>,
                     <<Arr(<<"GET">>), NumLine(1)>>}
      [] c = "r" -> {Handshake, Deviant, One(<<"PSYNC", "?", "-1">>),
                     One(<<"SET", "k", "x">>)}
      [] OTHER -> {}

(***************************************************************************)
(* The handlers, lock by lock.  The handlers of GET, SET, INCR, MULTI,     *)
(* DISCARD and EXEC take the write lock of the client table and keep it    *)
(* while they lock the queue of the connection, the map of the key-value   *)
(* store and its counters, and the peer table; KEYS locks the counter and  *)
(* then the map.  task[c].ops is what the handler of c has still to do,    *)
(* task[c].held the locks it holds, task[c].val the value it has read.     *)
(* pc[c] is "run" while the handler is followed this way.                  *)
(***************************************************************************)
Op(name, a) == [op |-> name, a |-> a]
Acq(l) == Op("acq", l)
Rel(l) == Op("rel", l)

\* Client.multi_queue of connection c, a Mutex of its own
QueueLock(c) == "multi_queue " \o c

\* the lock is free for c: no other task holds it.  A task that asks for
\* a lock it holds itself waits for ever (the locks are not reentrant).
Free(l, c) == \A d \in Conns : l \notin task[d].held

\* KeyValueStore::get: the map is locked, the value is read; for an expired
\* binding the counters are locked one after the other, with the map still
\* locked, and the binding is removed
kv_get_ops(key) == <<Acq("hash_map"), Op("get", key), Rel("hash_map")>>

kv_expired_ops(key) ==
    <<Acq("size"), Op("dec", "size"), Rel("size"),
      Acq("expire_size"), Op("dec", "expire_size"), Rel("expire_size"),
      Op("remove", key)>>

\* KeyValueStore::insert: the map is locked, then expire_size for a
\* binding with an expiry, then size, each counter let go at once
kv_insert_ops(key, value, expiry) ==
    <<Acq("hash_map")>>
       \o (IF expiry.some
           THEN <<Acq("expire_size"), Op("inc", "expire_size"),
                  Rel("expire_size")>>
           ELSE <<>>)
       \o <<Op("put", [key |-> key, value |-> value, expiry |-> expiry]),
            Acq("size"), Op("inc", "size"), Rel("size"), Rel("hash_map")>>

\* broadcast_peers: the peer table is locked for writing
broadcast_ops(read) == <<Acq("peers"), Op("send", read), Rel("peers")>>

\* multi_queue.lock().await.push_back(cmd)
push_ops(c, o) ==
    <<Acq(QueueLock(c)), Op("push", o), Rel(QueueLock(c)),
      Op("reply", Simple("QUEUED"))>>

\* the commands of a batch, each popped from the queue and run
RECURSIVE batch_ops(_, _)
batch_ops(queue, read) ==
    IF queue = <<>> THEN <<>>
    ELSE LET o == Head(queue)
         IN  <<Op("pop", "")>>
                \o (IF o.cmd = "Get"
                    THEN kv_get_ops(o.key) \o <<Op("reply_get", "")>>
                    ELSE IF o.cmd = "Set"
                    THEN kv_insert_ops(o.key, o.value, o.expiry)
                            \o <<Op("reply", Simple("OK"))>>
                            \o broadcast_ops(read)
                    ELSE IF o.cmd = "Incr"
                    THEN kv_get_ops(o.key) \o <<Op("incr", o.key)>>
                            \o broadcast_ops(read)
                    ELSE <<>>)
                \o batch_ops(Tail(queue), read)

\* KEYS: get_ht_size, then iter
KeysOps == 
    <<Acq("size"), Op("read_size", ""), Rel("size"),
      Acq("hash_map"), Op("iter", ""), Rel("hash_map")>>

\* what the handler of command o does once it has the client table
HandlerOps(S, c, o, read) ==
    LET known == c \in DOMAIN S.clients
        multi == InMulti(S, c)
    IN  CASE o.cmd = "Multi" ->
                <<Op("multi", ""), Op("reply", Simple("OK")), Rel("clients")>>
          [] o.cmd = "Discard" ->
                IF ~known THEN <<Rel("clients")>>
                ELSE IF ~multi
                THEN <<Op("reply", Error("ERR DISCARD without MULTI")),
                       Op("unmulti", ""), Rel("clients")>>
                ELSE <<Acq(QueueLock(c)), Op("clear", ""),
                       Op("reply", Simple("OK")), Rel(QueueLock(c)),
                       Op("unmulti", ""), Rel("clients")>>
          [] o.cmd = "Exec" ->
                IF ~known THEN <<Rel("clients")>>
                ELSE IF ~multi
                THEN <<Op("reply", Error("ERR EXEC without MULTI")),
                       Op("unmulti", ""), Rel("clients")>>
                ELSE <<Acq(QueueLock(c)),
                       Op("reply", ArrayHeader(Len(S.clients[c].multi_queue)))>>
                        \o batch_ops(S.clients[c].multi_queue, read)
                        \o <<Rel(QueueLock(c)), Op("unmulti", ""),
                             Rel("clients")>>
          [] o.cmd = "Get" ->
                (IF multi THEN push_ops(c, o)
                 ELSE kv_get_ops(o.key) \o <<Op("reply_get", "")>>)
                   \o <<Rel("clients")>>
          [] o.cmd = "Set" ->
                IF ~known THEN <<Op("panic", "")>>
                ELSE (IF multi THEN push_ops(c, o)
                      ELSE kv_insert_ops(o.key, o.value, o.expiry)
                              \o <<Op("reply", Simple("OK"))>>
                              \o broadcast_ops(read))
                        \o <<Rel("clients")>>
          [] o.cmd = "Incr" ->
                IF ~known THEN <<Op("panic", "")>>
                ELSE (IF multi THEN push_ops(c, o)
                      ELSE kv_get_ops(o.key) \o <<Op("incr", o.key)>>
                              \o broadcast_ops(read))
                        \o <<Rel("clients")>>
          [] OTHER -> <<Rel("clients")>>

\* (variant) GET looks up the store without the client table
StartOpsGetFree(o, read) ==
    IF o.cmd = "Keys" THEN KeysOps \o <<Op("end", "")>>
    ELSE IF o.cmd = "Get"
    THEN <<Op("handler", [o |-> o, read |-> read]), Op("end", "")>>
    ELSE <<Acq("clients"), Op("handler", [o |-> o, read |-> read]),
           Op("end", "")>>

\* (variant) INCR reads and writes the store without the client table
StartOpsIncrFree(o, read) ==
    IF o.cmd = "Keys" THEN KeysOps \o <<Op("end", "")>>
    ELSE IF o.cmd = "Incr"
    THEN <<Op("handler", [o |-> o, read |-> read]), Op("end", "")>>
    ELSE <<Acq("clients"), Op("handler", [o |-> o, read |-> read]),
           Op("end", "")>>

\* (variant) KEYS keeps the counter locked while it locks the map
StartOpsKeysNested(o, read) ==
    IF o.cmd = "Keys"
    THEN <<Acq("size"), Op("read_size", ""), Acq("hash_map"), Op("iter", ""),
           Rel("hash_map"), Rel("size"), Op("end", "")>>
    ELSE <<Acq("clients"), Op("handler", [o |-> o, read |-> read]),
           Op("end", "")>>

\* the arm of the command: state.clients.write().await comes first in all
\* of them but KEYS
StartOps(o, read) ==
    IF o.cmd = "Keys" THEN KeysOps \o <<Op("end", "")>>
    ELSE <<Acq("clients"), Op("handler", [o |-> o, read |-> read]),
           Op("end", "")>>

LockCommands == {"Get", "Set", "Incr", "Multi", "Discard", "Exec", "Keys"}

\* the task reads (or goes on with its read) and comes to the arm of a
\* command that takes locks
Begin(c, sends) ==
    \E in \in Inputs(c, sends) :
        /\ ~RespInvalid(in.read)
        /\ Item(in).kind = "array"
        /\ Parsed(in).cmd \in LockCommands
        /\ Taken(c, in)
        /\ responses' = [responses EXCEPT ![c] = IF in.at = 1 THEN <<>> ELSE @]
        /\ pc' = [pc EXCEPT ![c] = "run"]
        /\ task' = [task EXCEPT ![c] =
                      [Idle EXCEPT !.ops = StartOps(Parsed(in), in.read)]]
        /\ UNCHANGED <<identify_replica, rx, sock, clients, peers, hash_map,
                       size, expire_size, now, root, last_entry_id, stream_tx,
                       notify, applied, follower, waiters>>

\* the task can take its next step: it waits only for a lock
CanStep(c) ==
    /\ pc[c] = "run"
    /\ task[c].ops # <<>>
    /\ Head(task[c].ops).op = "acq" => Free(Head(task[c].ops).a, c)

\* the state after the next step of the handler of c: S the shared state,
\* pushed the responses of c, t its task; `order` is the order in which the
\* map yields its keys
Step(c, order) ==
    LET o == Head(task[c].ops)
        rest == Tail(task[c].ops)
        t == [task[c] EXCEPT !.ops = rest]
        S == Shared
        same == [S |-> S, pushed |-> responses[c], t |-> t]
        value == task[c].val
        invalid == value.some /\ ~ParseI64(value.v).some
        new_value == IF value.some THEN ParseI64(value.v).v + 1 ELSE 1
    IN  CASE o.op = "acq" -> [same EXCEPT !.t.held = @ \cup {o.a}]
          [] o.op = "rel" -> [same EXCEPT !.t.held = @ \ {o.a}]
          [] o.op = "handler" ->
                [same EXCEPT !.t.ops = HandlerOps(S, c, o.a.o, o.a.read) \o rest]
          [] o.op = "get" ->
                [same EXCEPT
                    !.t.val = kv_get(S, o.a),
                    !.t.ops = (IF o.a \in DOMAIN S.hash_map
                                  /\ Expired(S.hash_map[o.a])
                               THEN kv_expired_ops(o.a) ELSE <<>>) \o rest]
          [] o.op = "dec" ->
                IF o.a = "size" THEN [same EXCEPT !.S.size = @ - 1]
                ELSE [same EXCEPT !.S.expire_size = @ - 1]
          [] o.op = "inc" ->
                IF o.a = "size" THEN [same EXCEPT !.S.size = @ + 1]
                ELSE [same EXCEPT !.S.expire_size = @ + 1]
          [] o.op = "remove" -> [same EXCEPT !.S.hash_map = Drop(@, o.a)]
          [] o.op = "put" ->
                [same EXCEPT
                    !.S = Record([S EXCEPT !.hash_map =
                                     Put(@, o.a.key,
                                         [value |-> o.a.value,
                                          expiry |-> IF o.a.expiry.some
                                                     THEN Some([at |-> now,
                                                                dur |-> o.a.expiry.v])
                                                     ELSE None])],
                                 c, o.a.key, o.a.value, FALSE)]
          [] o.op = "incr" ->
                IF invalid
                THEN [same EXCEPT !.pushed = Append(@,
                        Error("ERR value is not an integer or out of range"))]
                ELSE [same EXCEPT
                        !.t.ops = kv_insert_ops(o.a, Str(new_value), None)
                                     \o <<Op("reply", Integer(new_value))>>
                                     \o rest]
          [] o.op = "send" ->
                [same EXCEPT !.S = broadcast_peers(S, o.a, Len(S.applied))]
          [] o.op = "reply" -> [same EXCEPT !.pushed = Append(@, o.a)]
          [] o.op = "reply_get" ->
                [same EXCEPT !.pushed =
                    Append(@, IF value.some THEN Bulk(value.v) ELSE NullBulk)]
          [] o.op = "push" ->
                [same EXCEPT !.S.clients[c].multi_queue = Append(@, o.a)]
          [] o.op = "pop" ->
                [same EXCEPT !.S.clients[c].multi_queue = Tail(@)]
          [] o.op = "clear" ->
                [same EXCEPT !.S.clients[c].multi_queue = <<>>]
          [] o.op = "multi" ->
                IF c \in DOMAIN S.clients
                THEN [same EXCEPT !.S.clients[c].multi_lock = TRUE]
                ELSE same
          [] o.op = "unmulti" ->
                [same EXCEPT !.S.clients[c].multi_lock = FALSE]
          [] o.op = "read_size" -> [same EXCEPT !.t.val = Some(Str(S.size))]
          [] o.op = "iter" ->
                [same EXCEPT !.pushed =
                    Append(@, "*" \o value.v \o CRLF \o BulkBytes(order))]
          [] o.op = "panic" ->
                [same EXCEPT !.t = Idle, !.S.rx = Dropped(@, c)]
          [] OTHER -> [same EXCEPT !.t = Idle]

\* one step of the handler of c
LockStep(c) ==
    /\ CanStep(c)
    /\ \E order \in IF Head(task[c].ops).op = "iter"
                    THEN Orders(DOMAIN hash_map) ELSE {<<>>} :
          LET w == Step(c, order)
              op == Head(task[c].ops).op
          IN  /\ task' = [task EXCEPT ![c] = w.t]
              /\ responses' = [responses EXCEPT ![c] = w.pushed]
              /\ clients' = w.S.clients
              /\ peers' = w.S.peers
              /\ rx' = w.S.rx
              /\ hash_map' = w.S.hash_map
              /\ size' = w.S.size
              /\ expire_size' = w.S.expire_size
              /\ applied' = w.S.applied
              /\ pc' = [pc EXCEPT ![c] =
                          IF op = "panic" THEN "closed"
                          ELSE IF op # "end" THEN "run"
                          ELSE IF cursor[c] > Len(str_from_network[c])
                          THEN "write"
                          ELSE "process"]
    /\ UNCHANGED <<str_from_network, cursor, identify_replica, sock, now,
                   root, last_entry_id, stream_tx, notify, reads, follower,
                   waiters>>

\* the handlers that lock the peer table alone, for one call at a time
\* (PSYNC, REPLCONF ACK, WAIT): each is one step, taken when no task has
\* the peer table
PeersFree(c) == Free("peers", c)

Init ==
    /\ pc = [c \in Conns |-> "none"]
    /\ str_from_network = [c \in Conns |-> <<>>]
    /\ cursor = [c \in Conns |-> 1]
    /\ responses = [c \in Conns |-> <<>>]
    /\ identify_replica = [c \in Conns |-> <<>>]
    /\ rx = [c \in Conns |-> <<>>]
    /\ sock = [c \in Conns |-> <<>>]
    /\ clients = <<>>
    /\ peers = <<>>
    /\ hash_map = <<>>
    /\ size = 0
    /\ expire_size = 0
    /\ now = 0
    /\ root = <<>>
    /\ last_entry_id = EntryID(0, 0)
    /\ stream_tx = <<>>
    /\ notify = FALSE
    /\ reads = 0
    /\ applied = <<>>
    /\ follower = NewFollower
    /\ waiters = <<>>
    /\ task = [c \in Conns |-> Idle]

NextTx ==
    \E c \in {"a", "b"} :
        \/ Accept(c)
        \/ Write(c)
        \/ Multi(c, TxSends(c))
        \/ Discard(c, TxSends(c))
        \/ Exec(c, TxSends(c))
        \/ Get(c, TxSends(c))
        \/ Set(c, TxSends(c))
        \/ Incr(c, TxSends(c))
        \/ Xadd(c, TxSends(c))

SpecTx == Init /\ [][NextTx]_vars

Next ==
    \E c \in {"a", "r"} :
        \/ Accept(c)
        \/ Write(c)
        \/ Forward(c)
        \/ Close(c)
        \/ Abort(c, Sends(c))
        \/ CommandError(c, Sends(c))
        \/ Ping(c, Sends(c))
        \/ Replconf(c, Sends(c))
        \/ Psync(c, Sends(c))
        \/ Multi(c, Sends(c))
        \/ Discard(c, Sends(c))
        \/ Exec(c, Sends(c))
        \/ Get(c, Sends(c))
        \/ Set(c, Sends(c))
        \/ Incr(c, Sends(c))

Spec == Init /\ [][Next]_vars

\* a client that writes and waits, and two connections that may be
\* followers and acknowledge
WaitSends(c) ==
    CASE c = "a" -> {<<Arr(<<"SET", "k", "1">>), Arr(<<"WAIT", "1", "0">>)>>,
                     One(<<"WAIT", "1", "0">>), One(<<"WAIT", "2", "0">>),
                     One(<<"WAIT", "0", "0">>), One(<<"WAIT", "1">>)}
      [] c = "r" -> {Handshake,
                     <<Arr(<<"REPLCONF", "ACK", "27">>),
                       Arr(<<"REPLCONF", "ACK", "27">>)>>,
                     One(<<"REPLCONF", "ACK", "0">>)}
      [] c = "b" -> {Handshake, One(<<"REPLCONF", "ACK", "27">>)}
      [] OTHER -> {}

NextWait ==
    \E c \in Conns :
        \/ Accept(c)
        \/ Write(c)
        \/ Forward(c)
        \/ Ping(c, WaitSends(c))
        \/ Replconf(c, WaitSends(c))
        \/ Psync(c, WaitSends(c))
        \/ Set(c, WaitSends(c))
        \/ Wait(c, WaitSends(c))
        \/ WaitDone(c)

SpecWait == Init /\ [][NextWait]_vars

\* a client that writes and waits, with two commands in one read, and the
\* follower
ReplSends(c) ==
    CASE c = "a" -> {One(<<"SET", "k", "1">>), One(<<"INCR", "k">>),
                     One(<<"WAIT", "1", "0">>),
                     <<Arr(<<"SET", "k", "1">>), Arr(<<"WAIT", "1", "0">>)>>}
      [] c = "r" -> {Handshake}
      [] OTHER -> {}

NextRepl ==
    \/ \E c \in {"a", "r"} :
          \/ Accept(c)
          \/ Write(c)
          \/ Forward(c)
          \/ Ping(c, ReplSends(c))
          \/ Replconf(c, ReplSends(c))
          \/ Psync(c, ReplSends(c))
          \/ Set(c, ReplSends(c))
          \/ Incr(c, ReplSends(c))
          \/ Wait(c, ReplSends(c))
          \/ WaitDone(c)
    \/ FollowerHandshake
    \/ FollowerRead

SpecRepl == Init /\ [][NextRepl]_vars

\* a client that reads streams s and t, and one that appends to them: ids
\* above and below the top, ids of two digits, ids taken from the clock,
\* two appends in one read
StreamSends(c) ==
    CASE c = "a" -> {One(<<"XREAD", "BLOCK", "1", "STREAMS", "s", "1-2">>),
                     One(<<"XREAD", "BLOCK", "1", "STREAMS", "s", "$">>),
                     One(<<"XREAD", "STREAMS", "s", "0-0">>),
                     One(<<"XRANGE", "s", "2-0", "10-0">>),
                     One(<<"XRANGE", "s", "-", "+">>)}
      [] c = "b" -> {<<Arr(<<"XADD", "s", "1-1", "f", "v">>),
                       Arr(<<"XADD", "s", "1-2", "f", "v">>)>>,
                     <<Arr(<<"XADD", "s", "2-0", "f", "v">>),
                       Arr(<<"XADD", "s", "10-0", "f", "v">>)>>,
                     One(<<"XADD", "s", "2-0", "f", "v">>),
                     One(<<"XADD", "s", "1-*", "f", "v">>),
                     One(<<"XADD", "s", "*", "f", "v">>),
                     One(<<"XADD", "t", "2-1", "f", "v">>)}
      [] OTHER -> {}

NextStream ==
    \/ \E c \in {"a", "b"} :
          \/ Accept(c)
          \/ Write(c)
          \/ Xadd(c, StreamSends(c))
          \/ Xrange(c, StreamSends(c))
          \/ Xread(c, StreamSends(c))
          \/ XreadTick(c)
          \/ XreadNotified(c)
    \/ Tick

SpecStream == Init /\ [][NextStream]_vars

\* two clients that read stream s and block, one of them without a
\* timeout, and appends to the stream
LiveSends(c) ==
    CASE c = "a" -> {One(<<"XREAD", "BLOCK", "0", "STREAMS", "s", "$">>),
                     One(<<"XREAD", "BLOCK", "1", "STREAMS", "s", "$">>)}
      [] c = "b" -> {One(<<"XREAD", "BLOCK", "1", "STREAMS", "s", "$">>),
                     One(<<"XADD", "s", "1-1", "f", "v">>),
                     One(<<"XADD", "s", "2-0", "f", "v">>)}
      [] OTHER -> {}

NextLive ==
    \E c \in {"a", "b"} :
        \/ Accept(c)
        \/ Write(c)
        \/ Xadd(c, LiveSends(c))
        \/ Xread(c, LiveSends(c))
        \/ XreadTick(c)
        \/ XreadNotified(c)

\* the task of c holds the lock of rx and can take a permit and an id
CanTake(c) ==
    /\ waiters # <<>>
    /\ Head(waiters).conn = c
    /\ notify
    /\ stream_tx # <<>>

\* the runtime runs every task that can run: an interval that is polled
\* ticks, a permit that is stored is taken, responses are written.  The
\* second conjunct is WF_vars(XreadNotified(c)) written out: the action is
\* enabled where CanTake(c) holds, and every step of it changes notify.
SpecLive ==
    /\ Init
    /\ [][NextLive]_vars
    /\ \A c \in {"a", "b"} :
          /\ WF_vars(XreadTick(c))
          /\ ([]<>~CanTake(c)) \/ ([]<><<XreadNotified(c)>>_vars)
          /\ WF_vars(Write(c))

\* a client whose keys and values look like numbers, that sets a key with
\* an expiry and reads it, that uses one key in both stores, that echoes,
\* and that reads a stream after another command of the same read; and a
\* second client that reads and overwrites the key
KvSends(c) ==
    CASE c = "a" -> {<<Arr(<<"SET", "k", "007">>), Arr(<<"GET", "k">>)>>,
                     <<Arr(<<"SET", "123", "v">>), Arr(<<"GET", "123">>)>>,
                     <<Arr(<<"SET", "k", "v", "PX", "1">>), Arr(<<"GET", "k">>),
                       Arr(<<"GET", "k">>)>>,
                     <<Arr(<<"SET", "s", "1">>),
                       Arr(<<"XADD", "s", "1-1", "f", "v">>)>>,
                     <<Arr(<<"ECHO", "hi">>),
                       Arr(<<"XREAD", "STREAMS", "s", "0-0">>)>>,
                     <<Arr(<<"MULTI">>), Arr(<<"ECHO", "123">>)>>}
      [] c = "b" -> {One(<<"GET", "k">>), One(<<"SET", "k", "w">>)}
      [] OTHER -> {}

NextKv ==
    \/ \E c \in {"a", "b"} :
          \/ Accept(c)
          \/ Write(c)
          \/ InvalidRead(c, KvSends(c))
          \/ CommandError(c, KvSends(c))
          \/ Echo(c, KvSends(c))
          \/ Multi(c, KvSends(c))
          \/ Get(c, KvSends(c))
          \/ Set(c, KvSends(c))
          \/ Xadd(c, KvSends(c))
          \/ Xread(c, KvSends(c))
    \/ Tick

SpecKv == Init /\ [][NextKv]_vars

\* a client that sends six writes in one read, and the follower
ManySends(c) ==
    CASE c = "a" -> {<<Arr(<<"SET", "k", "1">>), Arr(<<"SET", "k", "2">>),
                       Arr(<<"SET", "k", "3">>), Arr(<<"SET", "k", "4">>),
                       Arr(<<"SET", "k", "5">>), Arr(<<"SET", "k", "6">>)>>}
      [] c = "r" -> {Handshake}
      [] OTHER -> {}

NextMany ==
    \E c \in {"a", "r"} :
        \/ Accept(c)
        \/ Write(c)
        \/ Forward(c)
        \/ Ping(c, ManySends(c))
        \/ Replconf(c, ManySends(c))
        \/ Psync(c, ManySends(c))
        \/ Set(c, ManySends(c))

SpecMany == Init /\ [][NextMany]_vars

\* a client that appends seventeen entries in one read, with ids taken from
\* the clock, and a client that reads the stream and blocks
RECURSIVE Repeated(_, _)
Repeated(item, n) == IF n = 0 THEN <<>> ELSE <<item>> \o Repeated(item, n - 1)

FullSends(c) ==
    CASE c = "a" -> {Repeated(Arr(<<"XADD", "s", "*", "f", "v">>), 17)}
      [] c = "b" -> {One(<<"XREAD", "BLOCK", "0", "STREAMS", "s", "$">>)}
      [] OTHER -> {}

NextFull ==
    \E c \in {"a", "b"} :
        \/ Accept(c)
        \/ Write(c)
        \/ Xadd(c, FullSends(c))
        \/ XaddUnblocked(c)
        \/ Xread(c, FullSends(c))
        \/ XreadTick(c)
        \/ XreadNotified(c)

\* the runtime runs every task that can run: a send that has a free slot
\* completes, a waiting reader takes the permit, responses are written
SpecFull ==
    /\ Init
    /\ [][NextFull]_vars
    /\ \A c \in {"a", "b"} :
          /\ WF_vars(XaddUnblocked(c))
          /\ ([]<>~CanTake(c)) \/ ([]<><<XreadNotified(c)>>_vars)
          /\ WF_vars(Write(c))

\* a client that sets two keys, one with an expiry, overwrites and
\* increments, and a client that reads and lists the keys
KeysSends(c) ==
    CASE c = "a" -> {One(<<"SET", "k", "1">>), One(<<"INCR", "k">>),
                     One(<<"SET", "n", "v", "PX", "1">>)}
      [] c = "b" -> {One(<<"KEYS", "*">>), One(<<"GET", "n">>),
                     One(<<"KEYS">>)}
      [] OTHER -> {}

NextKeys ==
    \/ \E c \in {"a", "b"} :
          \/ Accept(c)
          \/ Write(c)
          \/ CommandError(c, KeysSends(c))
          \/ Get(c, KeysSends(c))
          \/ Set(c, KeysSends(c))
          \/ Incr(c, KeysSends(c))
          \/ Keys(c, KeysSends(c))
    \/ Tick

SpecKeys == Init /\ [][NextKeys]_vars

\* a client that appends to streams whose keys begin alike and sets a key
\* of the key-value store, and a client that asks for them
PrefixSends(c) ==
    CASE c = "a" -> {One(<<"XADD", "s", "1-*", "f", "v">>),
                     One(<<"XADD", "st", "1-*", "f", "v">>),
                     One(<<"XADD", "s1", "1-*", "f", "v">>),
                     One(<<"SET", "k", "1">>)}
      [] c = "b" -> {One(<<"XRANGE", "s", "-", "+">>),
                     One(<<"XRANGE", "st", "-", "+">>),
                     One(<<"XREAD", "STREAMS", "s1", "0-0">>),
                     One(<<"TYPE", "s">>), One(<<"TYPE", "st">>),
                     One(<<"TYPE", "s1">>), One(<<"TYPE", "k">>)}
      [] OTHER -> {}

NextPrefix ==
    \E c \in {"a", "b"} :
        \/ Accept(c)
        \/ Write(c)
        \/ Set(c, PrefixSends(c))
        \/ Type(c, PrefixSends(c))
        \/ Xadd(c, PrefixSends(c))
        \/ Xrange(c, PrefixSends(c))
        \/ Xread(c, PrefixSends(c))

SpecPrefix == Init /\ [][NextPrefix]_vars

\* a client with a transaction in one read or a write that expires, a
\* client that reads, increments, lists the keys or waits, and a follower
\* that acknowledges; each of them sends one read
LockSends(c) ==
    IF str_from_network[c] # <<>> THEN {}
    ELSE CASE c = "a" -> {<<Arr(<<"MULTI">>), Arr(<<"SET", "k", "1">>),
                            Arr(<<"INCR", "k">>), Arr(<<"EXEC">>)>>,
                          <<Arr(<<"MULTI">>), Arr(<<"GET", "k">>),
                            Arr(<<"DISCARD">>)>>,
                          One(<<"SET", "k", "v", "PX", "1">>)}
           [] c = "b" -> {One(<<"GET", "k">>), One(<<"INCR", "k">>),
                          One(<<"SET", "k", "2">>), One(<<"KEYS", "*">>),
                          One(<<"WAIT", "1", "0">>)}
           [] c = "r" -> {Handshake \o <<Arr(<<"REPLCONF", "ACK", "27">>)>>}
           [] OTHER -> {}

NextLocks ==
    \/ \E c \in Conns :
          \/ Accept(c)
          \/ Write(c)
          \/ Forward(c)
          \/ Begin(c, LockSends(c))
          \/ LockStep(c)
          \/ Ping(c, LockSends(c))
          \/ PeersFree(c) /\ Replconf(c, LockSends(c))
          \/ PeersFree(c) /\ Psync(c, LockSends(c))
          \/ PeersFree(c) /\ Wait(c, LockSends(c))
          \/ PeersFree(c) /\ WaitDone(c)
    \/ Tick

SpecLocks == Init /\ [][NextLocks]_vars

\* three clients that increment one key
IncrSends(c) == {One(<<"INCR", "k">>)}

NextIncr ==
    \E c \in Conns :
        \/ Accept(c)
        \/ Write(c)
        \/ Begin(c, IncrSends(c))
        \/ LockStep(c)

SpecIncr == Init /\ [][NextIncr]_vars

\* the clients of a follower instance: the shared state is the follower's
\* own SharedState, the connections are those its listener accepts
OnFollowerSends(c) ==
    CASE c = "a" -> {One(<<"SET", "k", "1">>), One(<<"INCR", "k">>),
                     One(<<"GET", "k">>), One(<<"MULTI">>),
                     <<Arr(<<"MULTI">>), Arr(<<"SET", "k", "1">>)>>,
                     <<Arr(<<"MULTI">>), Arr(<<"GET", "k">>)>>}
      [] c = "b" -> {One(<<"GET", "k">>), One(<<"INCR", "k">>)}
      [] OTHER -> {}

NextOnFollower ==
    \E c \in {"a", "b"} :
        \/ AcceptOnFollower(c)
        \/ Write(c)
        \/ Multi(c, OnFollowerSends(c))
        \/ Get(c, OnFollowerSends(c))
        \/ Set(c, OnFollowerSends(c))
        \/ Incr(c, OnFollowerSends(c))

SpecOnFollower == Init /\ [][NextOnFollower]_vars

\* the follower against a leader that replies as expected or not
NextShake == FollowerConnect \/ FollowerReply

SpecShake == Init /\ [][NextShake]_vars

(***************************************************************************)
(* What a step shows of the command it handled.                            *)
(***************************************************************************)
\* the step is the handling of one item of a read of c
Took(c) ==
    \/ /\ pc[c] = "select" /\ pc'[c] # "select"
       /\ reads' = reads + 1 /\ cursor'[c] = 2
    \/ pc[c] = "process" /\ cursor'[c] = cursor[c] + 1

\* the item handled, and the command it parses to
TookItem(c) == str_from_network'[c][cursor'[c] - 1]
TookCommand(c) == parse_command(RespParse(TookItem(c)).v)
Handled(c, names) ==
    Took(c) /\ TookItem(c).kind = "array" /\ TookCommand(c).cmd \in names

\* the responses the step pushed
Pushed(c) ==
    IF pc[c] = "select" THEN responses'[c]
    ELSE SubSeq(responses'[c], Len(responses[c]) + 1, Len(responses'[c]))

\* what a GET of each key returns in the state
Visible ==
    [k \in {x \in DOMAIN hash_map : ~Expired(hash_map[x])} |-> hash_map[k].value]

\* the commands of c's read handled so far, the last four of them
LastFour(c) ==
    LET n == cursor'[c] - 1
    IN  IF n < 4 THEN <<>> ELSE SubSeq(str_from_network'[c], n - 3, n)

\* the messages of broadcasts, on the socket and in the channel
Delivered(p) == sock[p] \o rx[p]

(***************************************************************************)
(* C1 (SpecTx).  Between MULTI and EXEC or DISCARD every write command of  *)
(* the connection (SET, INCR, XADD) has no effect when it is received: the *)
(* key-value store, the stream store and the peers' channels are           *)
(* unchanged, the command is appended to the connection's queue and the    *)
(* reply is +QUEUED.  XADD is not queued: the claim fails for it.          *)
(***************************************************************************)
WritesAreQueued ==
    [][\A c \in Conns :
          Handled(c, {"Set", "Incr", "Xadd"}) /\ InMulti(Shared, c)
          => /\ hash_map' = hash_map
             /\ root' = root
             /\ last_entry_id' = last_entry_id
             /\ rx' = rx
             /\ clients'[c].multi_queue =
                    Append(clients[c].multi_queue, TookCommand(c))
             /\ Pushed(c) = <<"+QUEUED\r\n">>]_vars

(***************************************************************************)
(* C2 (SpecTx).  EXEC with n queued commands replies *n and then exactly n *)
(* replies, the i-th the result of the i-th queued command on the state    *)
(* the first i-1 left; afterwards the queue is empty and multi_lock false. *)
(* The reference runs the queue on the plain map from keys to values.      *)
(***************************************************************************)
ReplyOf(store, cmd) ==
    CASE cmd.cmd = "Get" ->
            IF cmd.key \in DOMAIN store
            THEN "$" \o Str(Len(store[cmd.key])) \o CRLF \o store[cmd.key] \o CRLF
            ELSE "$-1\r\n"
      [] cmd.cmd = "Set" -> "+OK\r\n"
      [] cmd.cmd = "Incr" ->
            IF cmd.key \notin DOMAIN store THEN ":1\r\n"
            ELSE IF ParseI64(store[cmd.key]).some
            THEN ":" \o Str(ParseI64(store[cmd.key]).v + 1) \o CRLF
            ELSE "-ERR value is not an integer or out of range\r\n"

StoreAfter(store, cmd) ==
    CASE cmd.cmd = "Get" -> store
      [] cmd.cmd = "Set" -> Put(store, cmd.key, cmd.value)
      [] cmd.cmd = "Incr" ->
            IF cmd.key \notin DOMAIN store THEN Put(store, cmd.key, "1")
            ELSE IF ParseI64(store[cmd.key]).some
            THEN Put(store, cmd.key, Str(ParseI64(store[cmd.key]).v + 1))
            ELSE store

RECURSIVE StoreAfterAll(_, _)
StoreAfterAll(store, queue) ==
    IF queue = <<>> THEN store
    ELSE StoreAfterAll(StoreAfter(store, Head(queue)), Tail(queue))

ExecReplies ==
    [][\A c \in Conns :
          Handled(c, {"Exec"}) /\ InMulti(Shared, c)
          => LET queue == clients[c].multi_queue
                 n == Len(queue)
             IN  /\ Len(Pushed(c)) = n + 1
                 /\ Pushed(c)[1] = "*" \o Str(n) \o CRLF
                 /\ \A i \in 1 .. n :
                       Pushed(c)[i + 1] =
                           ReplyOf(StoreAfterAll(Visible, SubSeq(queue, 1, i - 1)),
                                   queue[i])
                 /\ Visible' = StoreAfterAll(Visible, queue)
                 /\ clients'[c].multi_queue = <<>>
                 /\ ~clients'[c].multi_lock]_vars

\* MULTI, SET k 1, INCR k, EXEC gave *2, +OK, :2 and the GET k after it 2
ExecRepliesWitness ==
    /\ Len(sock["a"]) >= 3
    /\ LET n == Len(sock["a"])
       IN  /\ sock["a"][n - 2].bytes = "*2\r\n"
           /\ sock["a"][n - 1].bytes = "+OK\r\n"
           /\ sock["a"][n].bytes = ":2\r\n"
    /\ pc["a"] = "write"
    /\ str_from_network["a"] = One(<<"GET", "k">>)
    /\ responses["a"] = <<"$1\r\n2\r\n">>
    /\ clients["a"] = [multi_lock |-> FALSE, multi_queue |-> <<>>]

(***************************************************************************)
(* C3 (SpecTx).  As claimed: a GET of another connection returns a value   *)
(* written by a queued command of A only once the response of A's EXEC has *)
(* been written to A's socket.  The writes are applied when EXEC is        *)
(* handled and the response is written after that, so this fails.          *)
(***************************************************************************)
LastWrite(k) ==
    LET at == {i \in 1 .. Len(applied) : applied[i].key = k}
    IN  IF at = {} THEN None
        ELSE Some(applied[CHOOSE i \in at : \A j \in at : j <= i])

ExecResponseSent(c) ==
    \E i \in 1 .. Len(sock[c]) :
        /\ sock[c][i].kind = "response"
        /\ \E n \in 1 .. MaxReads * 3 : sock[c][i].bytes = ArrayHeader(n)

NotVisibleUntilExecResponse ==
    [][\A b \in Conns :
          Handled(b, {"Get"}) /\ ~InMulti(Shared, b)
          => LET w == LastWrite(TookCommand(b).key)
             IN  (w.some /\ w.v.exec /\ w.v.conn # b
                  /\ Pushed(b) = <<Bulk(w.v.value)>>)
                 => ExecResponseSent(w.v.conn)]_vars

(***************************************************************************)
(* C3 as amended (SpecTx).  From MULTI until its EXEC is handled, no       *)
(* command of the connection changes what a GET of any key returns: the    *)
(* queued writes become visible when EXEC is handled, not before.          *)
(***************************************************************************)
NotVisibleUntilExec ==
    [][\A c \in Conns :
          Took(c) /\ InMulti(Shared, c) /\ ~Handled(c, {"Exec"})
          => Visible' = Visible]_vars

\* a has a write of k queued, and b's GET k has just returned nil
NotVisibleUntilExecWitness ==
    /\ InMulti(Shared, "a")
    /\ \E i \in 1 .. Len(clients["a"].multi_queue) :
          clients["a"].multi_queue[i].cmd = "Set"
    /\ pc["b"] = "write"
    /\ str_from_network["b"] = One(<<"GET", "k">>)
    /\ responses["b"] = <<NullBulk>>

(***************************************************************************)
(* C4 (Spec).  DISCARD after MULTI replies +OK, empties the queue, clears  *)
(* multi_lock; it and the commands queued before it leave the key-value    *)
(* store and the peers' channels as they were.  DISCARD or EXEC without    *)
(* MULTI reply with their error and change nothing.                        *)
(***************************************************************************)
DiscardFrame ==
    [][\A c \in Conns :
          /\ Handled(c, {"Discard"}) /\ InMulti(Shared, c)
             => /\ Pushed(c) = <<"+OK\r\n">>
                /\ clients' = [clients EXCEPT ![c] =
                                  [multi_lock |-> FALSE, multi_queue |-> <<>>]]
                /\ UNCHANGED <<hash_map, rx, peers>>
          /\ Handled(c, {"Multi", "Set", "Incr", "Get"}) /\ InMulti(Shared, c)
             => UNCHANGED <<hash_map, rx, peers>>
          /\ Handled(c, {"Multi"}) => UNCHANGED <<hash_map, rx, peers>>
          /\ Handled(c, {"Discard", "Exec"}) /\ ~InMulti(Shared, c)
             => /\ Pushed(c) = <<IF TookCommand(c).cmd = "Exec"
                                 THEN "-ERR EXEC without MULTI\r\n"
                                 ELSE "-ERR DISCARD without MULTI\r\n">>
                /\ UNCHANGED <<clients, peers, rx, hash_map, size, expire_size,
                               root, last_entry_id, stream_tx, notify, sock>>]_vars

\* with a peer that has a message waiting, a has sent MULTI, INCR k and
\* DISCARD
DiscardFrameWitness ==
    /\ "r" \in DOMAIN peers
    /\ rx["r"] # <<>>
    /\ pc["a"] = "write"
    /\ cursor["a"] = 4
    /\ str_from_network["a"][3] = Arr(<<"DISCARD">>)
    /\ responses["a"] = <<"+OK\r\n", "+QUEUED\r\n", "+OK\r\n">>
    /\ clients["a"] = [multi_lock |-> FALSE, multi_queue |-> <<>>]

(***************************************************************************)
(* C5 (Spec).  The messages of two writes are in every peer's channel, and *)
(* are written to its socket, in the order in which the writes were        *)
(* applied (w is the place of a message's write in that order).            *)
(***************************************************************************)
PeerOrder ==
    \A p \in Conns :
        \A i, j \in 1 .. Len(Delivered(p)) :
            (i < j /\ Delivered(p)[i].w > 0 /\ Delivered(p)[j].w > 0)
            => Delivered(p)[i].w < Delivered(p)[j].w

\* the messages of two writes of different connections are on the peer's
\* socket
PeerOrderWitness ==
    \E i, j \in 1 .. Len(sock["r"]) :
        /\ i < j
        /\ sock["r"][i].w = 1
        /\ sock["r"][j].w = 2
        /\ applied[1].conn # applied[2].conn

(***************************************************************************)
(* C6 (Spec).  The message broadcast for a SET or INCR that EXEC executes  *)
(* is the bytes of that write command.  The code broadcasts the bytes of   *)
(* the read EXEC came in: the claim fails.                                 *)
(***************************************************************************)
ExecBroadcastsTheWrite ==
    \A p \in Conns : \A i \in 1 .. Len(rx[p]) :
        LET m == rx[p][i]
        IN  (m.w > 0 /\ applied[m.w].exec)
            => Bytes(m.read) \in
                  {Bytes(One(<<"SET", applied[m.w].key, applied[m.w].value>>)),
                   Bytes(One(<<"INCR", applied[m.w].key>>))}

(***************************************************************************)
(* C7 (Spec).  A connection is inserted into the peer table only if the    *)
(* last four commands it sent are PING, REPLCONF listening-port,           *)
(* REPLCONF capa psync2, PSYNC ? -1.  The code keeps the steps seen so far *)
(* whatever comes between them, and takes any capability: the claim fails. *)
(***************************************************************************)
PeerOnlyByHandshake ==
    [][\A c \in Conns :
          (c \notin DOMAIN peers /\ c \in DOMAIN peers')
          => LastFour(c) = Handshake]_vars

(***************************************************************************)
(* C8 (Spec).  No message of a broadcast is written to a connection's      *)
(* socket before +FULLRESYNC and the RDB file have been written to it, and *)
(* every write applied while the connection is in the peer table is        *)
(* enqueued in its channel.                                                *)
(***************************************************************************)
AfterFullResync ==
    \A c \in Conns : \A i \in 1 .. Len(sock[c]) :
        sock[c][i].kind = "message"
        => \E j \in 1 .. i - 2 :
              /\ sock[c][j] = Written("response", <<>>, FullResync, 0)
              /\ sock[c][j + 1] = Written("response", <<>>, RdbFile, 0)

EveryWriteEnqueued ==
    \A p \in DOMAIN peers :
        pc'[p] \notin {"none", "closed"}
        => \A w \in (Len(applied) + 1) .. Len(applied') :
              \E i \in 1 .. Len(rx'[p]) : rx'[p][i].w = w

PeerSync == []AfterFullResync /\ [][EveryWriteEnqueued]_vars

\* the peer's socket has +FULLRESYNC, the file and then the message of a
\* write
PeerSyncWitness ==
    /\ "r" \in DOMAIN peers
    /\ Len(sock["r"]) >= 3
    /\ sock["r"][Len(sock["r"])].kind = "message"
    /\ sock["r"][Len(sock["r"])].w > 0

(***************************************************************************)
(* C9 (Spec).  No address is in the client table and in the peer table.    *)
(* The client record made on accept is never removed: the claim fails.     *)
(***************************************************************************)
ClientOrPeer == (DOMAIN clients) \cap (DOMAIN peers) = {}

(***************************************************************************)
(* C10 (Spec).  When a connection has closed its record is in neither      *)
(* table.  No code removes a record: the claim fails.                      *)
(***************************************************************************)
ClosedIsForgotten ==
    \A c \in Conns :
        pc[c] = "closed" => c \notin DOMAIN clients /\ c \notin DOMAIN peers

(***************************************************************************)
(* C11 (SpecWait).  As claimed: the reply r of WAIT n t with n > 0 is      *)
(* between 0 and the number of peers, and r >= n only if at least n peers  *)
(* have bytes_written equal to bytes_sent less the length of GETACK when   *)
(* the reply is computed.  When no peer has a recorded command the reply   *)
(* is the peer count whatever was acknowledged, so this fails.             *)
(***************************************************************************)
\* the WAIT whose sleep is over, and the reply pushed for it
Slept(c) == parse_command(RespParse(str_from_network[c][cursor[c] - 1]).v)
Replied(c, v) ==
    /\ pc[c] = "sleep"
    /\ responses'[c] = Append(responses[c], ":" \o Str(v) \o CRLF)

Acknowledged ==
    {p \in DOMAIN peers : peers[p].bytes_written + Len(Bytes(GetAck)) = peers[p].bytes_sent}

WaitCountsAcknowledged ==
    [][\A c \in Conns :
          (pc[c] = "sleep" /\ responses'[c] # responses[c])
          => \E v \in 0 .. Cardinality(DOMAIN peers) :
                /\ Replied(c, v)
                /\ v >= ParseI64(Slept(c).args[1]).v
                   => Cardinality(Acknowledged) >= ParseI64(Slept(c).args[1]).v]_vars

(***************************************************************************)
(* C11 as amended (SpecWait).  The reply r of WAIT n t with n > 0 is       *)
(* between 0 and the number of peers, and r >= n only if at least n peers  *)
(* have bytes_written equal to bytes_sent less the length of GETACK, or no *)
(* peer has a recorded command (then r is the peer count).  WAIT 0 t       *)
(* replies the peer count at once and broadcasts nothing.                  *)
(***************************************************************************)
WaitCounts ==
    [][\A c \in Conns :
          /\ (pc[c] = "sleep" /\ responses'[c] # responses[c])
             => \E v \in 0 .. Cardinality(DOMAIN peers) :
                   /\ Replied(c, v)
                   /\ v >= ParseI64(Slept(c).args[1]).v
                      => \/ Cardinality(Acknowledged)
                               >= ParseI64(Slept(c).args[1]).v
                         \/ /\ \A p \in DOMAIN peers :
                                  peers[p].commands_processed = <<>>
                            /\ v = Cardinality(DOMAIN peers)
          /\ (Handled(c, {"Wait"}) /\ TookCommand(c).args = <<"0", "0">>)
             => /\ Pushed(c) = <<":" \o Str(Cardinality(DOMAIN peers)) \o CRLF>>
                /\ pc'[c] # "sleep"
                /\ UNCHANGED <<peers, rx>>]_vars

\* after a write, WAIT 1 has replied 1: the peer acknowledged the write
\* during the sleep
WaitCountsWitness ==
    /\ pc["a"] = "write"
    /\ str_from_network["a"][Len(str_from_network["a"])] = Arr(<<"WAIT", "1", "0">>)
    /\ responses["a"] = <<"+OK\r\n", ":1\r\n">>
    /\ \E p \in DOMAIN peers : peers[p].commands_processed # <<>>

(***************************************************************************)
(* C12 (SpecWait).  REPLCONF ACK n from a peer sets that peer's            *)
(* bytes_written to n and leaves the other peers' bytes_written and every  *)
(* bytes_sent as they were; from a connection that is no peer it changes   *)
(* nothing.                                                                *)
(***************************************************************************)
AckSets ==
    [][\A c \in Conns :
          (Handled(c, {"Replconf"}) /\ Len(TookCommand(c).args) = 2
           /\ TookCommand(c).args[1] = "ack")
          => /\ peers' = IF c \in DOMAIN peers
                         THEN [peers EXCEPT ![c].bytes_written =
                                  ParseI64(TookCommand(c).args[2]).v]
                         ELSE peers
             /\ UNCHANGED <<rx, clients, hash_map>>]_vars

\* with two peers, one has acknowledged 27 twice and its bytes_written is
\* 27, the other's is still 0
AckSetsWitness ==
    /\ DOMAIN peers = {"r", "b"}
    /\ pc["r"] = "write"
    /\ cursor["r"] = 3
    /\ str_from_network["r"][2] = Arr(<<"REPLCONF", "ACK", "27">>)
    /\ peers["r"].bytes_written = 27
    /\ peers["b"].bytes_written = 0

(***************************************************************************)
(* The follower's acknowledgements and its store.                          *)
(***************************************************************************)
\* the commands the follower has received, in the order of the stream
FromLeader == Flatten(sock["r"])

\* the follower applies this command to its store
IsAppliedWrite(item) == parse_command(RespParse(item).v).cmd = "Set"
IsGetAck(item) ==
    LET o == parse_command(RespParse(item).v)
    IN  o.cmd = "Replconf" /\ o.args[1] = "getack"

\* the bytes of the first n commands as the follower counts them
RECURSIVE Counted(_)
Counted(items) ==
    IF items = <<>> THEN 0
    ELSE Len(Reencoded(RespParse(Head(items)).v)) + Counted(Tail(items))

AckIsBytesBefore ==
    \A i \in DOMAIN follower.acks :
        follower.acks[i].value
           = Len(Bytes(SubSeq(FromLeader, 1, follower.acks[i].at - 1)))

\* the follower has read all that the leader wrote and enqueued for it
CaughtUp ==
    /\ "r" \in DOMAIN peers
    /\ rx["r"] = <<>>
    /\ follower.pc = "loop"
    /\ follower.taken = Len(sock["r"])

\* the keys of the writes the leader broadcast to the follower
BroadcastKeys ==
    {applied[w].key : w \in {sock["r"][i].w : i \in 1 .. Len(sock["r"])} \ {0}}

\* C15: once the follower has processed all messages, GET of a key written
\* by SET or INCR after the handshake gives on the follower what it gives
\* on the leader.
FollowerHasTheWrites ==
    CaughtUp => \A k \in BroadcastKeys : kv_get(follower, k) = kv_get(Shared, k)

(***************************************************************************)
(* The streams: ids as pairs of numbers.                                   *)
(***************************************************************************)
StreamKeys == {"s", "t"}

IdLess(x, y) ==
    \/ x.milliseconds_time < y.milliseconds_time
    \/ /\ x.milliseconds_time = y.milliseconds_time
       /\ x.sequence_number < y.sequence_number

\* the greatest id stored for the key, 0-0 for a stream without entries
MaxId(tree, key) ==
    IF IdsOf(tree, key) = {} THEN EntryID(0, 0)
    ELSE CHOOSE x \in IdsOf(tree, key) :
             \A y \in IdsOf(tree, key) \ {x} : IdLess(y, x)

\* the entries of the key with the ids given, by increasing id
RECURSIVE ById(_, _, _)
ById(tree, key, ids) ==
    IF ids = {} THEN <<>>
    ELSE LET least == CHOOSE x \in ids : \A y \in ids \ {x} : IdLess(x, y)
         IN  <<CHOOSE e \in EntriesOf(tree, key) : e.entry_id = print(least)>>
                \o ById(tree, key, ids \ {least})

\* the step is an XADD of c that returns an id
Added(c) ==
    /\ Handled(c, {"Xadd"})
    /\ \E id \in StoredIds : Pushed(c) = <<Bulk(print(id))>>

\* C16: the ids returned by the successful XADDs on one stream key are
\* strictly increasing: an XADD that returns an id returns one greater than
\* every id stored for the key before, whatever the form of the id given
\* (explicit, <ms>-* or *) and with a clock that does not go back.
XaddIdsIncrease ==
    [][\A c \in Conns :
          Added(c)
          => \A x \in IdsOf(root, TookCommand(c).key) :
                 IdLess(x, last_entry_id')]_vars

\* C17: for every stream key the id the next XADD is validated against is
\* the greatest id stored for that key, 0-0 if it has no entry (so an XADD
\* on another key does not change it, and neither does a rejected XADD).
LastIdIsOfTheKey ==
    \A key \in StreamKeys : last_entry_id = MaxId(root, key)

\* start <= id <= end with the bounds of XRANGE read as ids: - the least,
\* + the greatest, a bare ms the first or the last id of that ms
AtLeast(id, start) ==
    IF start = "-" THEN TRUE
    ELSE IF \E n \in IdNumbers : start = Str(n)
    THEN \E n \in IdNumbers : start = Str(n) /\ id.milliseconds_time >= n
    ELSE ~IdLess(id, IdOf(start))
AtMost(id, end) ==
    IF end = "+" THEN TRUE
    ELSE IF \E n \in IdNumbers : end = Str(n)
    THEN \E n \in IdNumbers : end = Str(n) /\ id.milliseconds_time <= n
    ELSE ~IdLess(IdOf(end), id)

\* C18: XRANGE key start end returns exactly the entries of the stream with
\* start <= id <= end, the ids compared as pairs of numbers, by increasing
\* id, also when the ids differ in their number of digits.
XrangeIsNumeric ==
    [][\A c \in Conns :
          Handled(c, {"Xrange"})
          => LET o == TookCommand(c)
                 ids == {x \in IdsOf(root, o.key) :
                            AtLeast(x, o.start) /\ AtMost(x, o.end)}
             IN  Pushed(c) = format_xrange_output(ById(root, o.key, ids))]_vars

\* the step ends a blocking XREAD of c that was suspended
Woken(c) == pc[c] = "xread" /\ pc'[c] # "xread"
\* the key it was suspended on, and the id it waited to be exceeded
AwaitedKey(c) == Reading(c).keys[Head(waiters).at]
AwaitedId == IdOf(Head(waiters).entry_id)

\* C19: a blocking XREAD suspended on key k with id after_id ends with a
\* reply other than the null only when the stream of k holds an entry with
\* an id greater than after_id: an XADD on another key does not wake it.
XreadWakesForItsKey ==
    [][\A c \in Conns :
          Woken(c) /\ responses'[c] # <<NullBulk>>
          => \E x \in IdsOf(root, AwaitedKey(c)) : IdLess(AwaitedId, x)]_vars

\* C20: when an entry with an id greater than after_id (for $, than the last
\* id at the call) was appended to the awaited stream while a blocking XREAD
\* was suspended, and the read has taken every wake-up sent to it, it ends
\* with the entries above after_id and not with the null, however many
\* XADDs there were before it started.
XreadGetsTheEntry ==
    [][\A c \in Conns :
          /\ Woken(c)
          /\ ~notify
          /\ \E x \in IdsOf(root, AwaitedKey(c)) \ Head(waiters).had :
                 IdLess(AwaitedId, x)
          => responses'[c]
                = <<ArrayHeader(1), KeyHeader(AwaitedKey(c))>>
                     \o format_xrange_output(
                            ById(root, AwaitedKey(c),
                                 {x \in IdsOf(root, AwaitedKey(c)) :
                                     IdLess(AwaitedId, x)}))]_vars

(***************************************************************************)
(* Blocking reads and time.                                                *)
(***************************************************************************)
\* c is in check_availability, or waits for the lock of rx to get there,
\* for an XREAD with BLOCK t, t > 0
SuspendedWithDeadline(c) ==
    /\ pc[c] = "xread"
    /\ \E i \in DOMAIN waiters : waiters[i].conn = c /\ waiters[i].timeout > 0

\* C21: every XREAD with BLOCK t, t > 0, eventually ends with its reply
\* (entries or the null), also while another connection is suspended in a
\* blocking XREAD, one with BLOCK 0 included.
XreadMeetsItsDeadline ==
    \A c \in {"a", "b"} : SuspendedWithDeadline(c) ~> (pc[c] # "xread")

(***************************************************************************)
(* The key-value store as a client sees it.                                *)
(***************************************************************************)
\* the step handles an array of n bulk strings of c, the first of them name
Sent(c, name, n) ==
    /\ Took(c)
    /\ TookItem(c).kind = "array"
    /\ Len(TookItem(c).elems) = n
    /\ TookItem(c).elems[1] = name

\* C22: no key is bound in the key-value store and in the stream store,
\* after any sequence of SET, INCR and XADD.
OneStorePerKey ==
    \A k \in DOMAIN hash_map : EntriesOf(root, k) = {}

\* C23: SET k v, with k and v the bulk strings sent (also ones that look
\* like integers), replies +OK and binds k to exactly v; GET k returns what
\* k is bound to, the null if it is not bound.
SetThenGet ==
    [][\A c \in Conns :
          LET sent == TookItem(c).elems
          IN  /\ (Sent(c, "SET", 3) /\ ~InMulti(Shared, c))
                 => /\ Pushed(c) = <<"+OK\r\n">>
                    /\ sent[2] \in DOMAIN Visible'
                    /\ Visible'[sent[2]] = sent[3]
              /\ (Sent(c, "GET", 2) /\ ~InMulti(Shared, c))
                 => Pushed(c) =
                       <<IF sent[2] \in DOMAIN Visible
                         THEN "$" \o Str(Len(Visible[sent[2]])) \o CRLF
                                  \o Visible[sent[2]] \o CRLF
                         ELSE "$-1\r\n">>]_vars

\* C24: SET k v PX t binds k to v with the deadline t ms after the SET; a
\* GET k returns v while less than t ms have passed since, and once more
\* than t ms have passed it returns the null and removes the binding (no
\* sweeper is needed for that); a SET k v2 without expiry binds k to v2
\* without a deadline.  (v is a value the parser leaves as it is sent: C23
\* is about the others.)
ExpiryByGet ==
    [][\A c \in Conns :
          LET sent == TookItem(c).elems
              o == TookCommand(c)
          IN  /\ (Sent(c, "SET", 5) /\ sent[4] = "PX" /\ ~InMulti(Shared, c))
                 => /\ o.key \in DOMAIN hash_map'
                    /\ hash_map'[o.key] =
                          [value |-> o.value,
                           expiry |-> Some([at |-> now,
                                            dur |-> ParseI64(sent[5]).v])]
              /\ (Sent(c, "GET", 2) /\ ~InMulti(Shared, c)
                  /\ sent[2] \in DOMAIN hash_map
                  /\ hash_map[sent[2]].expiry.some)
                 => LET e == hash_map[sent[2]]
                        elapsed == now - e.expiry.v.at
                    IN  /\ elapsed < e.expiry.v.dur
                           => Pushed(c) = <<"$" \o Str(Len(e.value)) \o CRLF
                                                \o e.value \o CRLF>>
                        /\ elapsed > e.expiry.v.dur
                           => /\ Pushed(c) = <<"$-1\r\n">>
                              /\ sent[2] \notin DOMAIN hash_map'
              /\ (Sent(c, "SET", 3) /\ ~InMulti(Shared, c))
                 => /\ o.key \in DOMAIN hash_map'
                    /\ hash_map'[o.key] = [value |-> o.value, expiry |-> None]]_vars

\* SET k v PX 1 and two GET k in one read: the first GET, at once, returned
\* v; the second, 2 ms after the SET, returned the null and k is unbound
ExpiryByGetWitness ==
    /\ pc["a"] = "write"
    /\ str_from_network["a"][1] = Arr(<<"SET", "k", "v", "PX", "1">>)
    /\ responses["a"] = <<"+OK\r\n", "$1\r\nv\r\n", "$-1\r\n">>
    /\ now = 2
    /\ "k" \notin DOMAIN hash_map

\* C30: ECHO m, with m the bulk string sent (also one that looks like an
\* integer), replies +m, inside a transaction and outside, and changes no
\* shared state.
EchoReplies ==
    [][\A c \in Conns :
          Sent(c, "ECHO", 2)
          => /\ Pushed(c) = <<"+" \o TookItem(c).elems[2] \o CRLF>>
             /\ UNCHANGED <<clients, peers, rx, hash_map, size, expire_size,
                            root, last_entry_id, stream_tx, notify>>]_vars

(***************************************************************************)
(* The responses of one read.                                              *)
(***************************************************************************)
\* C26: within one read of a connection the responses collected for the
\* commands handled so far stay as they are, in their order, whatever the
\* later commands of the read give (an XREAD that finds nothing included):
\* a step on the same read only appends responses.
ResponsesOnlyGrow ==
    [][\A c \in Conns :
          pc[c] \in {"process", "xread", "sleep"}
          => /\ Len(responses'[c]) >= Len(responses[c])
             /\ SubSeq(responses'[c], 1, Len(responses[c])) = responses[c]]_vars

\* C25: INCR on a key whose value is no integer replies with the error and
\* has no other effect: the stored value stays and nothing is enqueued to
\* any peer, no peer's bytes_sent changes.
IncrErrorHasNoEffect ==
    [][\A c \in Conns :
          (Handled(c, {"Incr"})
           /\ Pushed(c) = <<"-ERR value is not an integer or out of range\r\n">>)
          => UNCHANGED <<hash_map, peers, rx>>]_vars

\* C27: a command-level error (an unknown command, a wrong number or type
\* of arguments, WAIT or REPLCONF with arguments missing or not numbers,
\* XADD with an id that is no number) gets an error reply and leaves the
\* connection open: the task of a connection ends only on a framing error,
\* never on an item that is a well-formed array.
CommandKeepsOpen ==
    [][\A c \in Conns :
          (Took(c) /\ TookItem(c).kind = "array") => pc'[c] # "closed"]_vars

(***************************************************************************)
(* The locks and the records of the shared state.                          *)
(***************************************************************************)
\* C28: no task holds two of the locks of the shared state (client table,
\* peer table, key-value store, stream store) at one time: a command that
\* needs the client table and another store lets go of the client table
\* before it touches the other.
OneLockAtATime ==
    [][\A c \in Conns :
          (Took(c) /\ TookItem(c).kind = "array")
          => \A held \in locks_held(Shared, c, TookCommand(c)) :
                 Cardinality(held) <= 1]_vars

\* "Stores last 10 commands sent to replica"
RecentWrites == 10

\* C29: for every peer the queue of recent writes that broadcast records
\* holds at most 10 entries, after any number of broadcasts, and no GETACK
\* message.
RecentWritesBounded ==
    \A p \in DOMAIN peers :
        /\ Len(peers[p].commands_processed) <= RecentWrites
        /\ \A i \in DOMAIN peers[p].commands_processed :
               ~Contains(peers[p].commands_processed[i], "getack")

(***************************************************************************)
(* The follower's connection to its leader.                                *)
(***************************************************************************)
\* C31: the follower enters the loop of follower_thread only when the six
\* reads of the handshake returned what they expect (+PONG, +OK, +OK,
\* +FULLRESYNC, the length and the file that begins with REDIS); every
\* other handshake ends in a reconnect with backoff, never in the end of
\* the thread, and follower_connect returns its error only once the backoff
\* is above 64 s.
HandshakeIsChecked ==
    /\ follower.pc = "loop" => follower.got = [i \in 1 .. 6 |-> "expected"]
    /\ follower.pc # "ended"
    /\ follower.pc = "failed" => follower.backoff > MaxBackoff

\* C32: every connection accepted, by a leader or by a follower, has its
\* client record from then on, so that MULTI, SET and INCR find it: a SET or
\* an INCR never ends the task of the connection, and a SET after MULTI is
\* queued.
ClientRecordFromAccept ==
    [][\A c \in Conns :
          /\ (pc[c] = "none" /\ pc'[c] = "select") => c \in DOMAIN clients'
          /\ Handled(c, {"Set", "Incr"}) => pc'[c] # "closed"
          /\ (Handled(c, {"Set"}) /\ cursor[c] = 2 /\ pc[c] = "process"
              /\ str_from_network[c][1] = Arr(<<"MULTI">>))
             => Pushed(c) = <<"+QUEUED\r\n">>]_vars

(***************************************************************************)
(* What a peer is sent for a write.                                        *)
(***************************************************************************)
\* the bytes of the command of a write, as a client sends it
WriteBytes(w) ==
    {Bytes(One(<<"SET", w.key, w.value>>)), Bytes(One(<<"INCR", w.key>>))}

\* C35: for every SET or INCR applied outside a transaction each peer is
\* sent one message, and the message is the bytes of that command alone,
\* also when the command came in one read with other commands.
WriteIsSentAlone ==
    \A p \in DOMAIN peers : \A i \in 1 .. Len(rx[p]) :
        LET m == rx[p][i]
        IN  (m.w > 0 /\ ~applied[m.w].exec)
            => /\ Bytes(m.read) \in WriteBytes(applied[m.w])
               /\ \A j \in 1 .. Len(rx[p]) : rx[p][j].w = m.w => j = i

(***************************************************************************)
(* The channel of the stream store.                                        *)
(***************************************************************************)
\* C36: every XADD gets its reply: an XADD that waits for a slot of the
\* notification channel goes on in the end, whether or not a connection is
\* reading the channel and however many XADDs there were before it.
XaddGoesOn ==
    \A c \in {"a", "b"} : (pc[c] = "blocked") ~> (pc[c] # "blocked")

(***************************************************************************)
(* C37 (SpecWait).  Whenever WAIT, its sleep over, computes the number of  *)
(* acknowledged peers (some peer has a recorded command), every peer has   *)
(* a bytes_sent of at least the length of the GETACK message, so that the  *)
(* difference of the two is defined.  A connection that becomes a peer     *)
(* during the sleep has a bytes_sent of 0, so this fails.                  *)
(***************************************************************************)
WaitSubtractsInRange ==
    [][\A c \in Conns :
          (/\ pc[c] = "sleep"
           /\ pc'[c] # "sleep"
           /\ count_peers_commands_processed(Shared) # 0)
          => \A p \in DOMAIN peers :
                peers[p].bytes_sent >= Len(Bytes(GetAck))]_vars

(***************************************************************************)
(* C39 (SpecKeys).  The count in the header of the reply to KEYS is the    *)
(* number of keys the reply lists, which are the keys of the store, after  *)
(* any SETs (also of a key that is there), INCRs and lookups that removed  *)
(* an expired key.  The counter grows with every insert, so this fails     *)
(* once a key is written twice.                                            *)
(***************************************************************************)
KeysCountsListed ==
    [][\A c \in Conns :
          Handled(c, {"Keys"})
          => \E order \in Orders(DOMAIN hash_map) :
                Pushed(c) = <<ArrayHeader(Len(order)) \o BulkBytes(order)>>]_vars

(***************************************************************************)
(* C40 (SpecPrefix).  The streams are apart: XRANGE k - + and XREAD        *)
(* STREAMS k 0-0 return the entries appended under the key k, all of them  *)
(* and no other, and TYPE k replies +stream only if an entry was appended  *)
(* under the key k itself, also when a key begins with another key or is   *)
(* spelled by a key and the beginning of an id.  In the tree the entries   *)
(* of such keys lie below one another, so this fails.                      *)
(***************************************************************************)
StreamsAreApart ==
    [][\A c \in Conns :
          /\ Handled(c, {"Xrange"})
             => \E order \in Orders(EntriesOf(root, TookCommand(c).key)) :
                   Pushed(c) = format_xrange_output(order)
          /\ Handled(c, {"Xread"})
             => \E order \in Orders(EntriesOf(root, TookCommand(c).keys[1])) :
                   Pushed(c) = IF order = <<>> THEN <<NullBulk>>
                               ELSE <<ArrayHeader(1),
                                      KeyHeader(TookCommand(c).keys[1])>>
                                       \o format_xrange_output(order)
          /\ (Handled(c, {"Type"}) /\ Pushed(c) = <<Simple("stream")>>)
             => EntriesOf(root, TookCommand(c).key) # {}]_vars

(***************************************************************************)
(* The handlers lock by lock.                                              *)
(***************************************************************************)
\* the command whose handler the task of c is in
Running(c) == parse_command(RespParse(str_from_network[c][cursor[c] - 1]).v)

\* the task of c waits for a lock that a task holds
Waits(c) ==
    /\ pc[c] = "run"
    /\ task[c].ops # <<>>
    /\ Head(task[c].ops).op = "acq"
    /\ ~Free(Head(task[c].ops).a, c)

\* EXEC of c has locked the queue and runs the batch
InBatch(c) ==
    /\ pc[c] = "run"
    /\ Running(c).cmd = "Exec"
    /\ QueueLock(c) \in task[c].held

\* the step is a lookup or a write of the key-value store by the task of d
KvStep(d) ==
    /\ pc[d] = "run"
    /\ task'[d] # task[d]
    /\ Head(task[d].ops).op \in {"get", "put", "remove"}

\* C33: while EXEC of a connection runs its batch, no GET, SET or INCR of
\* another connection reads or writes the key-value store: the others see
\* none or all of the writes of the batch.
ExecIsAtomic ==
    [][\A c, d \in Conns : (c # d /\ InBatch(c)) => ~KvStep(d)]_vars

\* the first command of the batch has replied, the second has not, and the
\* task of b waits for the client table
ExecIsAtomicWitness ==
    /\ InBatch("a")
    /\ responses["a"] = <<Simple("OK"), Simple("QUEUED"), Simple("QUEUED"),
                          ArrayHeader(2), Simple("OK")>>
    /\ Waits("b")
    /\ Head(task["b"].ops) = Acq("clients")
    /\ Running("b").cmd \in {"Get", "Set", "Incr"}

\* the responses written to the sockets and those of the reads in progress
RECURSIVE RepliesOf(_)
RepliesOf(cs) ==
    IF cs = {} THEN <<>>
    ELSE LET c == CHOOSE x \in cs : TRUE
         IN  [i \in DOMAIN sock[c] |-> sock[c][i].bytes]
                \o (IF pc[c] \in {"run", "write"} THEN responses[c] ELSE <<>>)
                \o RepliesOf(cs \ {c})

\* C34: the INCRs of several connections on one key that was missing, none
\* in a transaction, store 1, 2, ... in turn and reply each of these values
\* once; the key ends at the number of INCRs.
IncrsAreCounted ==
    /\ \A i \in DOMAIN applied : applied[i].value = Str(i)
    /\ applied # <<>> => hash_map["k"].value = Str(Len(applied))
    /\ \A i \in DOMAIN RepliesOf(Conns) :
          /\ \E n \in 1 .. Len(applied) : RepliesOf(Conns)[i] = Integer(n)
          /\ \A j \in DOMAIN RepliesOf(Conns) :
                RepliesOf(Conns)[i] = RepliesOf(Conns)[j] => i = j
    /\ (\A c \in Conns : pc[c] \in {"none", "select"})
          => Len(RepliesOf(Conns)) = reads /\ Len(applied) = reads

\* three INCRs were handled, two of them at one time, and the key is 3
IncrsAreCountedWitness ==
    /\ Len(applied) = 3
    /\ \A c \in Conns : pc[c] = "select" /\ Len(sock[c]) = 1
    /\ hash_map["k"].value = "3"

\* C38: no tasks wait for each other's locks: in no state is there a set
\* of tasks each of which waits for a lock that a task of the set holds
\* (the client table, the peer table, the queue of a connection, the map
\* of the key-value store and its counters).
NoTasksWaitForEachOther ==
    \A D \in (SUBSET Conns) \ {{}} :
        ~ \A c \in D :
             /\ Waits(c)
             /\ \E d \in D : Head(task[c].ops).a \in task[d].held

\* a task waits for the counter of the store, which a task has locked
\* together with the client table and the map
NoTasksWaitForEachOtherWitness ==
    \E c, d \in Conns :
        /\ Waits(c)
        /\ Head(task[c].ops) = Acq("size")
        /\ task[d].held = {"clients", "hash_map", "size"}
====
